---------------------------- MODULE Spec2Model ----------------------------
(***************************************************************************)
(* A model of CyberFeedBites' feed acquisition and filtering pipeline:    *)
(* the keyword classifier (rss_reader.py: matches_exclude_keywords,       *)
(* matches_aggressive_keywords, process_feed_entries), the normaliser     *)
(* (utils.py: clean_articles, truncate_string), and the scheduler         *)
(* (rss_reader.py: process_rss_feed, process_all_feeds,                   *)
(* process_feed_async, fetch_articles_async,                              *)
(* fetch_articles_sync_fallback).                                         *)
(*                                                                         *)
(* Text is a sequence of one-character strings, so that substring search, *)
(* lower-casing, stripping and truncation are computed character by       *)
(* character as Python computes them.                                     *)
(***************************************************************************)
EXTENDS Integers, Sequences, FiniteSets, TLC

VARIABLES
    \* ---- the classifier applied to one entry (SpecClassify) ----
    c_pc,          \* "input" before the classifier ran, "done" after
    c_entry,       \* the parsed feed entry handed to the classifier
    c_exclude,     \* the exclude-keyword set as given by the caller
    c_order,       \* the order in which Python iterates set(exclude keywords)
    c_exceptions,  \* the exceptions dict passed to matches_exclude_keywords
    c_aggressive,  \* the aggressive-keyword set
    c_matched,     \* what matches_exclude_keywords returned
    c_aggr,        \* what matches_aggressive_keywords returned (or raised)
    c_out,         \* what process_feed_entries returned for the one-entry feed
    \* ---- one run of process_rss_feed / process_all_feeds (Spec) ----
    pc,            \* position of the caller: "start", "gather", "returned", "raised"
    opml,          \* what read_opml does for the given file
    feeds,         \* the (title, url) list handed to process_all_feeds
    options,       \* start_date, end_date, keyword sets, max_length_description
    entry_point,   \* "process_rss_feed" or a direct call of "process_all_feeds"
    max_concurrent,\* the semaphore's initial value
    semaphore,     \* the semaphore's current value
    task,          \* per feed: the position of its sem_task coroutine
    result,        \* per feed: what its sem_task returned (or the exception it raised)
    returned,      \* what the run returned: (all_entries, skipped_entries, errors)
    raised,        \* the exception the run raised to its caller, or "none"
    network_used,  \* whether a network request was issued during the run
    served,        \* per feed: the parsed feed process_feed_entries returned lists for
    tracing,       \* whether the run records the steps of its tasks
    steps,         \* per feed: the calls its task made so far, with their outcomes
    completed,     \* the order in which the tasks ended, when the run records it
    \* ---- one run of rss_processor.process_rss_feed (SpecThreadPool) ----
    tp_pc,         \* "start", "pool" (inside the with block), "returned", "raised"
    tp_opml,       \* what read_opml does for the given file
    tp_feeds,      \* sorted_feeds
    tp_future,     \* per feed: "running", or "handled" once as_completed yielded it
    tp_queue,      \* all_entries_queue: the feed URL of every entry put
    tp_errors,     \* the errors list
    tp_raised,     \* the exception the run raised to its caller, or "none"
    \* ---- consecutive fetches of one feed URL by the Retriever (SpecCache) ----
    k_pc,          \* "idle", or "ready" between two fetches
    k_options,     \* ignore_cache, no_conditional_cache
    k_cache,       \* the Cache Store's entry for the URL, or NoEntry
    k_now,         \* the clock, in seconds
    k_log,         \* one record per fetch, in order
    \* ---- clean_feed_content applied twice to some bytes (SpecRepair) ----
    p_pc,          \* "idle", "input", "once", "twice"
    p_content,     \* the bytes given to the first call
    p_once,        \* what the first call returned
    p_twice,       \* what the second call returned for p_once
    \* ---- one run of main.run_cyberfeedbites (SpecMain, SpecCeiling) ----
    m_pc,          \* "idle", "start", "called" (inside process_rss_feed), "ended"
    m_argv,        \* the command line: a list of flags, each with its value if any
    m_yaml,        \* what the settings file holds: a dict, or "invalid"
    m_user_options,\* the value of every user option
    m_exclude,     \* the exclude_keywords list handed to process_rss_feed
    m_return       \* what the run returned, "exit 2" when argparse ended it

cvars == <<c_pc, c_entry, c_exclude, c_order, c_exceptions, c_aggressive,
           c_matched, c_aggr, c_out>>
rvars == <<pc, opml, feeds, options, entry_point, max_concurrent, semaphore, task, result,
           returned, raised, network_used, served, tracing, steps, completed>>
tvars == <<tp_pc, tp_opml, tp_feeds, tp_future, tp_queue, tp_errors, tp_raised>>
kvars == <<k_pc, k_options, k_cache, k_now, k_log>>
pvars == <<p_pc, p_content, p_once, p_twice>>
mvars == <<m_pc, m_argv, m_yaml, m_user_options, m_exclude, m_return>>
vars == <<cvars, rvars, tvars, kvars, pvars, mvars>>

----------------------------------------------------------------------------
(* Python values *)

\* None, and a dictionary key that is missing; neither is a text.
None == <<"None">>
Absent == <<"Absent">>

\* dict.get(key, default)
Get(d, key, default) == IF d[key] = Absent THEN default ELSE d[key]

\* x or default, for a text or None
Or(x, default) == IF x = None \/ x = <<>> THEN default ELSE x

UPPERCASE == <<"A", "B", "C", "D", "E", "F", "G", "H", "I", "J", "K", "L", "M",
               "N", "O", "P", "Q", "R", "S", "T", "U", "V", "W", "X", "Y", "Z">>
LOWERCASE == <<"a", "b", "c", "d", "e", "f", "g", "h", "i", "j", "k", "l", "m",
               "n", "o", "p", "q", "r", "s", "t", "u", "v", "w", "x", "y", "z">>
WHITESPACE == {" ", "\n", "\t", "\r"}

LowerChar(c) ==
    IF \E i \in 1..Len(UPPERCASE) : UPPERCASE[i] = c
    THEN LOWERCASE[CHOOSE i \in 1..Len(UPPERCASE) : UPPERCASE[i] = c]
    ELSE c

\* str.lower()
lower(s) == [i \in 1..Len(s) |-> LowerChar(s[i])]

\* k in t, for two texts
IsSubstring(k, t) ==
    \E i \in 0..(Len(t) - Len(k)) : SubSeq(t, i + 1, i + Len(k)) = k

\* t.startswith(p)
StartsWith(t, p) == Len(t) >= Len(p) /\ SubSeq(t, 1, Len(p)) = p

\* s[first .. last] of the positions kept, or '' when none is kept
Between(s, keep) ==
    IF keep = {} THEN <<>>
    ELSE SubSeq(s, CHOOSE i \in keep : \A j \in keep : i <= j,
                   CHOOSE i \in keep : \A j \in keep : i >= j)

\* str.strip()
strip(s) == Between(s, {i \in 1..Len(s) : s[i] \notin WHITESPACE})

\* str.replace('\n', ' ')
ReplaceNewlines(s) == [i \in 1..Len(s) |-> IF s[i] = "\n" THEN " " ELSE s[i]]

HeadBefore(s, sp) ==
    IF sp = {} THEN s
    ELSE SubSeq(s, 1, (CHOOSE i \in sp : \A j \in sp : i >= j) - 1)

\* text.rsplit(' ', 1)[0]
RsplitSpaceHead(s) == HeadBefore(s, {i \in 1..Len(s) : s[i] = " "})

RECURSIVE SetToSeqs(_)
\* every order in which a set can be iterated
SetToSeqs(S) ==
    IF S = {} THEN {<<>>}
    ELSE UNION {{<<x>> \o q : q \in SetToSeqs(S \ {x})} : x \in S}

----------------------------------------------------------------------------
(* config.py *)

MAX_LENGTH_DESCRIPTION == 200
MAX_LENGTH_FEED_URL == 200
MAX_LENGTH_TITLE == 100
MAX_LENGTH_LINK == 200
MAX_LENGTH_CHANNEL_IMAGE == 200
MAX_LENGTH_SKIPPED_REASON == 500

Sponsored == <<"s", "p", "o", "n", "s", "o", "r", "e", "d">>
StateSponsored == <<"s", "t", "a", "t", "e", "-", "s", "p", "o", "n", "s", "o", "r", "e", "d">>
Security == <<"s", "e", "c", "u", "r", "i", "t", "y">>

\* {'sponsored': ['state-sponsored']}
KEYWORD_EXCEPTIONS == [k \in {Sponsored} |-> <<StateSponsored>>]

\* {'security'}
CYBERSECURITY_KEYWORDS == {Security}

----------------------------------------------------------------------------
(* utils.py *)

\* A parsed time tuple of feedparser: missing, a time, or a tuple that
\* datetime() rejects.
NoTime == [k |-> "none", t |-> 0]
BadTime == [k |-> "bad", t |-> 0]
Time(t) == [k |-> "time", t |-> t]

\* Lines 38-45 of get_published_date: the datetime of a parsed tuple, or None
parsed_to_date(parsed) == IF parsed.k = "time" THEN parsed ELSE NoTime

\* get_published_date(entry, fallback_to_now=False): a Time or NoTime (None)
get_published_date(entry) ==
    parsed_to_date(IF entry.published_parsed # NoTime THEN entry.published_parsed
                   ELSE entry.updated_parsed)

truncate_string(text, max_length) ==
    IF Len(text) > max_length
    THEN RsplitSpaceHead(SubSeq(text, 1, max_length)) \o <<".", ".", ".">>
    ELSE text

\* a or b, where '' and None are falsy
FirstTruthy(a, b) == IF a = None \/ a = <<>> THEN b ELSE a

\* Lines 81-84 of get_description
description_text(description) ==
    IF description = None \/ description = <<>> THEN <<>>
    ELSE ReplaceNewlines(strip(description))

\* The entry's description field holds the text html_to_plain_text yields.
get_description(entry) ==
    description_text(FirstTruthy(Get(entry, "description", None),
                                 Get(entry, "summary", None)))

truncate_description(plain_text_description, max_length_description) ==
    IF plain_text_description # <<>>
    THEN truncate_string(plain_text_description, max_length_description)
    ELSE <<>>

\* The body of clean_articles' loop for one article.
clean_article(article, max_length_description) ==
    [title |-> truncate_string(strip(Or(article.title, <<>>)), MAX_LENGTH_TITLE),
     link |-> truncate_string(strip(Or(article.link, <<>>)), MAX_LENGTH_LINK),
     description |-> truncate_description(strip(Or(article.description, <<>>)),
                                          max_length_description),
     feed_url |-> truncate_string(strip(Or(article.feed_url, <<>>)), MAX_LENGTH_FEED_URL),
     channel_image |-> truncate_string(strip(Or(article.channel_image, <<>>)),
                                       MAX_LENGTH_CHANNEL_IMAGE),
     published_date |-> article.published_date,
     skipped_reason |-> IF article.skipped_reason # Absent
                        THEN truncate_string(strip(article.skipped_reason),
                                             MAX_LENGTH_SKIPPED_REASON)
                        ELSE Absent,
     feed_title |-> Absent]

clean_articles(articles, max_length_description) ==
    [i \in 1..Len(articles) |-> clean_article(articles[i], max_length_description)]

----------------------------------------------------------------------------
(* rss_reader.py: the classifier *)

RECURSIVE aggressive_in_tags(_, _, _)
\* The generator of lines 130-134, tag by tag: tag.get('term', '').lower()
\* raises AttributeError when the term is None; any() stops at the first hit.
aggressive_in_tags(tags, aggressive_keywords_lower, i) ==
    IF i > Len(tags) THEN "False"
    ELSE LET term == Get(tags[i], "term", <<>>)
         IN  IF term = None THEN "AttributeError"
             ELSE IF \E keyword \in aggressive_keywords_lower :
                        IsSubstring(keyword, lower(term))
                  THEN "True"
                  ELSE aggressive_in_tags(tags, aggressive_keywords_lower, i + 1)

\* Lines 130-142, given what the scan of the tags gave
aggressive_result(in_tags, combined_text_lower, aggressive_keywords_lower) ==
    IF in_tags # "False" THEN in_tags
    ELSE IF \E keyword \in aggressive_keywords_lower :
               IsSubstring(keyword, combined_text_lower)
         THEN "True"
         ELSE "False"

\* "True", "False", or the exception raised
matches_aggressive_keywords(tags, combined_text, aggressive_keywords) ==
    IF aggressive_keywords = {} THEN "True"
    ELSE aggressive_result(
             aggressive_in_tags(tags, {lower(kw) : kw \in aggressive_keywords}, 1),
             lower(combined_text), {lower(kw) : kw \in aggressive_keywords})

RECURSIVE exclude_loop_exception_ends(_, _, _, _)
\* exclude_loop, except that a matched exception phrase ends the loop (a
\* return None in place of the continue of line 161).
exclude_loop_exception_ends(text_lower, exclude_keywords, exceptions, i) ==
    IF i > Len(exclude_keywords) THEN None
    ELSE LET keyword == exclude_keywords[i]
             exception_phrases == IF keyword \in DOMAIN exceptions
                                  THEN exceptions[keyword] ELSE <<>>
         IN  IF IsSubstring(keyword, text_lower)
             THEN IF \E e \in 1..Len(exception_phrases) :
                        IsSubstring(exception_phrases[e], text_lower)
                  THEN None
                  ELSE keyword
             ELSE exclude_loop_exception_ends(text_lower, exclude_keywords, exceptions,
                                              i + 1)

RECURSIVE exclude_loop(_, _, _, _)
\* The for loop of lines 156-163 over exclude_keywords in iteration order.
exclude_loop(text_lower, exclude_keywords, exceptions, i) ==
    IF i > Len(exclude_keywords) THEN None
    ELSE LET keyword == exclude_keywords[i]
             exception_phrases == IF keyword \in DOMAIN exceptions
                                  THEN exceptions[keyword] ELSE <<>>
         IN  IF IsSubstring(keyword, text_lower)
             THEN IF \E e \in 1..Len(exception_phrases) :
                        IsSubstring(exception_phrases[e], text_lower)
                  THEN exclude_loop(text_lower, exclude_keywords, exceptions, i + 1)
                  ELSE keyword
             ELSE exclude_loop(text_lower, exclude_keywords, exceptions, i + 1)

\* matches_exclude_keywords, except that the exceptions dict is not consulted.
matches_exclude_keywords_no_exceptions(text, exclude_keywords, exceptions) ==
    exclude_loop(lower(text), exclude_keywords, [k \in {} |-> <<>>], 1)

\* exclude_keywords is the set in its iteration order; the matched keyword or None
matches_exclude_keywords(text, exclude_keywords, exceptions) ==
    exclude_loop(lower(text), exclude_keywords, exceptions, 1)

\* Lines 172-177: the channel image of a parsed feed. feed.image is a dict
\* (present or not) with optional href and url; feed.icon and feed.logo are
\* texts or missing. The result is a text or None.
channel_image_of(feed) ==
    IF feed.image.present
    THEN IF Or(Get(feed.image, "href", None), None) # None THEN feed.image.href
         ELSE Or(Get(feed.image, "url", None), None)
    ELSE IF Or(Get(feed, "icon", None), None) # None THEN feed.icon
    ELSE Or(Get(feed, "logo", None), None)

MatchedReason(matched_keyword) ==
    <<"M", "a", "t", "c", "h", "e", "d", " ", "k", "e", "y", "w", "o", "r", "d", ":", " ">>
        \o matched_keyword
NotCyberReason ==
    <<"N", "o", "t", " ", "c", "y", "b", "e", "r", "s", "e", "c", "u", "r", "i", "t", "y",
      " ", "k", "e", "y", "w", "o", "r", "d", " ", "f", "o", "u", "n", "d", ":">>

\* date_in_range, except that end_date is not compared.
date_in_range_no_end(published_date, start_date, end_date) ==
    published_date # NoTime /\ start_date <= published_date.t

\* Line 184
date_in_range(published_date, start_date, end_date) ==
    published_date # NoTime
    /\ start_date <= published_date.t /\ published_date.t <= end_date

\* Line 184: the entry is selected when it has a date inside the range.
in_range(entry, start_date, end_date) ==
    date_in_range(get_published_date(entry), start_date, end_date)

\* Line 189, before .lower(): title + " " + category + " " + description
raw_text_of(entry) ==
    Get(entry, "title", <<>>) \o <<" ">> \o Get(entry, "category", <<>>)
        \o <<" ">> \o get_description(entry)

\* Line 189
combined_text_of(entry) == lower(raw_text_of(entry))

\* Lines 194-201
article_data_of(entry, feed_url, channel_image) ==
    [feed_url |-> feed_url,
     title |-> Get(entry, "title", <<>>),
     link |-> Get(entry, "link", <<>>),
     description |-> get_description(entry),
     published_date |-> get_published_date(entry).t,
     channel_image |-> channel_image,
     skipped_reason |-> Absent,
     feed_title |-> Absent]

\* disposition, except that the exclude match is tested before the
\* aggressive check.
disposition_exclude_first(aggressive_keyword, matched_keyword, article_data) ==
    IF aggressive_keyword = "AttributeError"
    THEN [to |-> "raise", article |-> article_data]
    ELSE IF matched_keyword # None /\ matched_keyword # <<>>
    THEN [to |-> "skipped",
          article |-> [article_data EXCEPT
                          !.skipped_reason = MatchedReason(matched_keyword)]]
    ELSE IF aggressive_keyword = "False"
    THEN [to |-> "skipped",
          article |-> [article_data EXCEPT !.skipped_reason = NotCyberReason]]
    ELSE [to |-> "recent", article |-> article_data]

\* Lines 203-210: the list the article is appended to ("recent" or
\* "skipped"); "raise" when the aggressive check raised.
disposition(aggressive_keyword, matched_keyword, article_data) ==
    IF aggressive_keyword = "AttributeError"
    THEN [to |-> "raise", article |-> article_data]
    ELSE IF aggressive_keyword = "False"
    THEN [to |-> "skipped",
          article |-> [article_data EXCEPT !.skipped_reason = NotCyberReason]]
    ELSE IF matched_keyword # None /\ matched_keyword # <<>>
    THEN [to |-> "skipped",
          article |-> [article_data EXCEPT
                          !.skipped_reason = MatchedReason(matched_keyword)]]
    ELSE [to |-> "recent", article |-> article_data]

\* Lines 191-210, given the combined text
classify_text(combined_text, entry, feed_url, channel_image, exclude_keywords, aggressive_keywords) ==
    disposition(
        matches_aggressive_keywords(entry.tags, combined_text, aggressive_keywords),
        matches_exclude_keywords(combined_text, exclude_keywords, KEYWORD_EXCEPTIONS),
        article_data_of(entry, feed_url, channel_image))

\* Lines 185-210 for one selected entry
classify_entry(entry, feed_url, channel_image, exclude_keywords, aggressive_keywords) ==
    classify_text(combined_text_of(entry), entry, feed_url, channel_image,
                  exclude_keywords, aggressive_keywords)

\* append_classified, except that a skipped article is appended to both lists.
append_classified_both(acc, c) ==
    IF c.to = "raise" THEN [acc EXCEPT !.raised = TRUE]
    ELSE IF c.to = "skipped"
    THEN [acc EXCEPT !.skipped = Append(@, c.article), !.recent = Append(@, c.article)]
    ELSE [acc EXCEPT !.recent = Append(@, c.article)]

\* Lines 203-210: the article appended to its list, or the raise recorded
append_classified(acc, c) ==
    IF c.to = "raise" THEN [acc EXCEPT !.raised = TRUE]
    ELSE IF c.to = "skipped" THEN [acc EXCEPT !.skipped = Append(@, c.article)]
    ELSE [acc EXCEPT !.recent = Append(@, c.article)]

RECURSIVE entries_loop(_, _, _, _, _, _, _, _)
\* The for loop of lines 182-210: the two lists built so far, or the raise.
entries_loop(feed, feed_url, start_date, end_date, exclude_keywords, aggressive_keywords, i, acc) ==
    IF i > Len(feed.entries) \/ acc.raised THEN acc
    ELSE entries_loop(feed, feed_url, start_date, end_date, exclude_keywords,
                      aggressive_keywords, i + 1,
                      IF ~in_range(feed.entries[i], start_date, end_date) THEN acc
                      ELSE append_classified(acc,
                               classify_entry(feed.entries[i], feed_url,
                                              channel_image_of(feed), exclude_keywords,
                                              aggressive_keywords)))

EmptyLists == [raised |-> FALSE, recent |-> <<>>, skipped |-> <<>>]

\* Lines 212-215
cleaned_lists(r, max_length_description) ==
    IF r.raised THEN [EmptyLists EXCEPT !.raised = TRUE]
    ELSE [raised |-> FALSE,
          recent |-> clean_articles(r.recent, max_length_description),
          skipped |-> clean_articles(r.skipped, max_length_description)]

\* process_feed_entries without the early return of lines 167-170: the
\* entries are filtered whatever the channel timestamp.
process_feed_entries_no_channel_check(feed, feed_url, start_date, end_date, exclude_keywords, aggressive_keywords, max_length_description) ==
    IF feed.updated_parsed = BadTime THEN [EmptyLists EXCEPT !.raised = TRUE]
    ELSE cleaned_lists(entries_loop(feed, feed_url, start_date, end_date,
                                    exclude_keywords, aggressive_keywords, 1, EmptyLists),
                       max_length_description)

\* [raised, recent, skipped]: the two cleaned lists, or raised = TRUE when an
\* exception leaves the function.
process_feed_entries(feed, feed_url, start_date, end_date, exclude_keywords, aggressive_keywords, max_length_description) ==
    IF feed.updated_parsed = BadTime THEN [EmptyLists EXCEPT !.raised = TRUE]
    ELSE IF feed.updated_parsed # NoTime /\ feed.updated_parsed.t < start_date
    THEN EmptyLists
    ELSE cleaned_lists(entries_loop(feed, feed_url, start_date, end_date,
                                    exclude_keywords, aggressive_keywords, 1, EmptyLists),
                       max_length_description)

----------------------------------------------------------------------------
(* Inputs of the classifier *)

\* Longest text drawn over SmallAlphabet.
MaxTextLen == 3

SmallAlphabet == {"s", "S", "-"}

RECURSIVE TextsUpTo(_)
TextsUpTo(n) ==
    IF n = 0 THEN {<<>>}
    ELSE LET shorter == TextsUpTo(n - 1)
         IN  shorter \cup {Append(t, ch) : t \in shorter, ch \in SmallAlphabet}

SmallTexts == TextsUpTo(MaxTextLen)

\* A keyword "s" whose exclusion the phrase "-s" vetoes, as 'state-sponsored'
\* vetoes 'sponsored'.
SmallExceptions == [k \in {<<"s">>} |-> << <<"-", "s">> >>]
EmptyDict == [k \in {} |-> <<>>]

StateSponsoredActors ==
    <<"S", "t", "a", "t", "e", "-", "s", "p", "o", "n", "s", "o", "r", "e", "d", " ",
      "a", "c", "t", "o", "r", "s", ".", ".", ".">>
ThisIsASponsoredPost ==
    <<"T", "h", "i", "s", " ", "i", "s", " ", "a", " ", "s", "p", "o", "n", "s", "o",
      "r", "e", "d", " ", "p", "o", "s", "t">>
SecurityPatchReleased ==
    <<"S", "e", "c", "u", "r", "i", "t", "y", " ", "p", "a", "t", "c", "h", " ",
      "r", "e", "l", "e", "a", "s", "e", "d">>
WeeklyDigest ==
    <<"W", "e", "e", "k", "l", "y", " ", "d", "i", "g", "e", "s", "t">>

Tag(term) == [term |-> term]

\* Tag lists of an entry: a term is a text, missing, or None (feedparser
\* stores None for a category that has a scheme or label but no term).
SmallTagLists ==
    {<<>>, <<Tag(Absent)>>, <<Tag(None)>>, <<Tag(<<"S">>)>>, <<Tag(<<"-">>)>>,
     <<Tag(None), Tag(<<"S">>)>>, <<Tag(<<"S">>), Tag(None)>>,
     <<Tag(<<"-">>), Tag(<<"s", "-">>)>>}
ExampleTagLists ==
    {<<>>, <<Tag(<<"S", "e", "c", "u", "r", "i", "t", "y">>)>>, <<Tag(<<"n", "e", "w", "s">>)>>,
     <<Tag(None)>>}

NoImage == [present |-> FALSE, href |-> Absent, url |-> Absent]

Entry(title, link, tags, published_parsed, updated_parsed) ==
    [title |-> title, link |-> link, category |-> Absent, description |-> Absent,
     summary |-> Absent, tags |-> tags,
     published_parsed |-> published_parsed, updated_parsed |-> updated_parsed]

Feed(updated_parsed, entries) ==
    [updated_parsed |-> updated_parsed, image |-> NoImage, icon |-> Absent,
     logo |-> Absent, entries |-> entries]

\* [text, tags, exclude, exceptions, aggressive]: what the classifier is given.
ClassifyInputs ==
    [text : SmallTexts, tags : SmallTagLists,
     exclude : SUBSET {<<"S">>, <<"-">>},
     exceptions : {SmallExceptions, EmptyDict},
     aggressive : SUBSET {<<"S">>, <<"-", "-">>}]
    \cup
    [text : {StateSponsoredActors, ThisIsASponsoredPost, SecurityPatchReleased,
             WeeklyDigest},
     tags : ExampleTagLists,
     exclude : SUBSET {Sponsored, <<"P", "o", "s", "t">>},
     exceptions : {KEYWORD_EXCEPTIONS, EmptyDict},
     aggressive : {{}, CYBERSECURITY_KEYWORDS}]

\* Line 228 / 253: set(k.lower() for k in exclude_keywords or [])
lower_keywords(keywords) == {lower(k) : k \in keywords}

ClassifyInit ==
    /\ c_pc = "input"
    /\ \E in \in ClassifyInputs :
          /\ c_entry = Entry(in.text, <<"l">>, in.tags, Time(1), NoTime)
          /\ c_exclude = in.exclude
          /\ c_exceptions = in.exceptions
          /\ c_aggressive = in.aggressive
    /\ c_order = <<>>
    /\ c_matched = None
    /\ c_aggr = "none"
    /\ c_out = EmptyLists

\* The classifier applied to c_entry: matches_exclude_keywords called on its
\* text with the exceptions dict c_exceptions, matches_aggressive_keywords on
\* its tags and combined text, and process_feed_entries on the feed that
\* holds just this entry.
Classify ==
    /\ c_pc = "input"
    /\ \E order \in SetToSeqs(lower_keywords(c_exclude)) :
          /\ c_order' = order
          /\ c_matched' = matches_exclude_keywords(raw_text_of(c_entry), order,
                                                   c_exceptions)
          /\ c_out' = process_feed_entries(Feed(NoTime, <<c_entry>>), <<"u">>, 1, 1,
                                           order, c_aggressive, MAX_LENGTH_DESCRIPTION)
    /\ c_aggr' = matches_aggressive_keywords(c_entry.tags, combined_text_of(c_entry),
                                             c_aggressive)
    /\ c_pc' = "done"
    /\ UNCHANGED <<c_entry, c_exclude, c_exceptions, c_aggressive>>

----------------------------------------------------------------------------
(* Inputs of a run *)

\* Most feeds in a source list.
MaxFeeds == 2
\* Largest max_concurrent a direct caller of process_all_feeds passes.
MaxCeiling == 2
\* rss_reader.py:328, the default of max_concurrent, which process_rss_feed
\* leaves in place.
DefaultMaxConcurrent == 10

Https == <<"h", "t", "t", "p", "s", ":", "/", "/">>
Http == <<"h", "t", "t", "p", ":", "/", "/">>

\* (title, url) pairs of the OPML outlines; an outline without a text
\* attribute has title None.
FeedCatalogue ==
    << << <<"B">>, Http \o <<"b">> >>, << <<"A">>, Https \o <<"a">> >>,
       << None, Https \o <<"c">> >> >>

FeedSources == {FeedCatalogue[i] : i \in DOMAIN FeedCatalogue}

\* A feed whose URL carries a query string that makes it longer than
\* MAX_LENGTH_FEED_URL + 3, and the feeds of the single-feed runs
LongQuery == [i \in 1..(MAX_LENGTH_FEED_URL + 1) |-> "x"]
LongUrlFeed == << <<"L">>, Http \o <<"l", "?">> \o LongQuery >>
ChainFeeds == {LongUrlFeed, FeedCatalogue[2]}

RECURSIVE Selected(_, _)
\* the elements of l at the positions in S, in l's order
Selected(l, S) ==
    IF l = <<>> THEN <<>>
    ELSE IF Len(l) \in S
         THEN Append(Selected(SubSeq(l, 1, Len(l) - 1), S), l[Len(l)])
         ELSE Selected(SubSeq(l, 1, Len(l) - 1), S)

Reversed(l) == [i \in 1..Len(l) |-> l[Len(l) + 1 - i]]

\* the lists of at most n distinct sources, in the catalogue's order or its reverse
FeedLists(n) ==
    UNION {{Selected(FeedCatalogue, S), Reversed(Selected(FeedCatalogue, S))} :
              S \in {T \in SUBSET (DOMAIN FeedCatalogue) : Cardinality(T) <= n}}

\* What read_opml does with the file: raises, or returns its feeds.
OpmlFiles ==
    {[error |-> e, feeds |-> <<>>] : e \in {"FileNotFoundError", "ParseError", "Exception"}}
    \cup {[error |-> "none", feeds |-> l] : l \in FeedLists(MaxFeeds)}

\* The options record of a run.
OptionSets ==
    [start_date : {1}, end_date : {2},
     max_length_description : {MAX_LENGTH_DESCRIPTION},
     exclude_keywords : {{<<"S", "p", "o", "n", "s", "o", "r", "e", "d">>}},
     aggressive_keywords : {{}, CYBERSECURITY_KEYWORDS}]

\* The options run_main_logic hands over when neither keyword filter is
\* enabled (main.py:444, 451, 489-498): both keyword lists are empty.
MainOptionSets ==
    [start_date : {1}, end_date : {2},
     max_length_description : {MAX_LENGTH_DESCRIPTION},
     exclude_keywords : {{}}, aggressive_keywords : {{}}]

AllOptionSets == OptionSets \cup MainOptionSets

\* The documents a feed URL may serve, as feedparser parses them.
DocNews ==
    Feed(NoTime,
         <<Entry(StateSponsoredActors, <<"1">>, <<Tag(<<"S", "e", "c", "u", "r", "i", "t", "y">>)>>,
                 Time(1), NoTime),
           Entry(ThisIsASponsoredPost, <<"2">>, <<>>, Time(2), NoTime),
           Entry(WeeklyDigest, <<"3">>, <<>>, Time(0), NoTime),
           Entry(SecurityPatchReleased, <<"4">>, <<>>, NoTime, Time(3)),
           Entry(SecurityPatchReleased, <<"5">>, <<>>, NoTime, NoTime),
           Entry(SecurityPatchReleased, <<"6">>, <<>>, BadTime, Time(1)),
           Entry(WeeklyDigest, <<"7">>, <<>>, NoTime, Time(2))>>)
DocStale ==
    Feed(Time(0),
         <<Entry(SecurityPatchReleased, <<"8">>, <<>>, Time(1), NoTime),
           Entry(SecurityPatchReleased, <<"0">>, <<Tag(None)>>, Time(2), NoTime)>>)
DocBadTag ==
    Feed(Time(1),
         <<Entry(SecurityPatchReleased, <<"9">>, <<Tag(<<"n", "e", "w", "s">>), Tag(None)>>,
                 Time(1), NoTime)>>)
Docs == {DocNews, DocStale, DocBadTag}

----------------------------------------------------------------------------
(* rss_reader.py: the scheduler *)

CharRank(c) == CHOOSE i \in 1..52 : (UPPERCASE \o LOWERCASE)[i] = c

\* a < b for two texts of letters, as Python compares str
TextLess(a, b) ==
    \E i \in 1..(Len(b)) :
        /\ \A j \in 1..(i - 1) : j <= Len(a) /\ a[j] = b[j]
        /\ \/ i > Len(a)
           \/ i <= Len(a) /\ CharRank(a[i]) < CharRank(b[i])

RECURSIVE InsertByTitle(_, _)
\* x put behind every element whose title is not greater (a stable sort)
InsertByTitle(sorted, x) ==
    IF sorted = <<>> THEN <<x>>
    ELSE IF TextLess(x[1], sorted[Len(sorted)][1])
         THEN Append(InsertByTitle(SubSeq(sorted, 1, Len(sorted) - 1), x),
                     sorted[Len(sorted)])
         ELSE Append(sorted, x)

RECURSIVE SortedByTitle(_)
\* Line 53: sorted(feeds, key=lambda feed: feed[0])
SortedByTitle(l) ==
    IF l = <<>> THEN <<>>
    ELSE InsertByTitle(SortedByTitle(SubSeq(l, 1, Len(l) - 1)), l[Len(l)])

\* Line 53 raises TypeError when it has to compare a None title.
SortRaises(l) == Len(l) >= 2 /\ \E i \in 1..Len(l) : l[i][1] = None

NoError == <<>>
NoResult == [exc |-> "none", recent |-> <<>>, skipped |-> <<>>, error |-> NoError]

\* What the awaited fetch_articles_async gave process_feed_async: the two
\* lists, or the exception it raised.
\* `feed` remembers the parsed feed the lists were made from.
NoFeed == Feed(NoTime, <<>>)
Fetched(r, feed) == [exc |-> "none", recent |-> r.recent, skipped |-> r.skipped,
                     feed |-> feed]
Raised(e) == [exc |-> e, recent |-> <<>>, skipped |-> <<>>, feed |-> NoFeed]

\* Label, except that only the title is written: each Article keeps the
\* URL process_feed_entries was called with.
Label_title_only(articles, feedtitle, feed_url) ==
    [i \in 1..Len(articles) |-> [articles[i] EXCEPT !.feed_title = feedtitle]]

\* Lines 309-315: both loops of process_feed_async
Label(articles, feedtitle, feed_url) ==
    [i \in 1..Len(articles) |->
        [articles[i] EXCEPT !.feed_title = feedtitle, !.feed_url = feed_url]]

\* process_feed_async without its two except clauses: the exception leaves
\* sem_task.
process_feed_async_uncaught(feedtitle, feed_url, fetched) ==
    IF fetched.exc = "none" /\ feedtitle # None
    THEN [exc |-> "none",
          recent |-> Label(fetched.recent, feedtitle, feed_url),
          skipped |-> Label(fetched.skipped, feedtitle, feed_url),
          error |-> NoError]
    ELSE [NoResult EXCEPT !.exc = IF fetched.exc = "none" THEN "TypeError"
                                  ELSE fetched.exc]

\* Lines 297-326, from the return of the awaited fetch on: what sem_task
\* returns. format_title_for_print(None) raises TypeError inside the try.
process_feed_async(feedtitle, feed_url, fetched) ==
    IF fetched.exc = "none" /\ feedtitle # None
    THEN [exc |-> "none",
          recent |-> Label(fetched.recent, feedtitle, feed_url),
          skipped |-> Label(fetched.skipped, feedtitle, feed_url),
          error |-> NoError]
    ELSE IF fetched.exc = "ConnectionResetError"
    THEN [NoResult EXCEPT !.error = <<feedtitle, feed_url, "ConnectionResetError">>]
    ELSE [NoResult EXCEPT !.error =
             <<feedtitle, feed_url,
               IF fetched.exc = "none" THEN "TypeError" ELSE fetched.exc>>]

\* The return of process_feed_entries, or `wrap` when it raised
Outcome(r, wrap, feed) == IF r.raised THEN Raised(wrap) ELSE Fetched(r, feed)

\* Every URL a run fetches: the sources' URLs and their http:// variants.
AllUrls ==
    {f[2] : f \in FeedSources \cup ChainFeeds}
    \cup {Http \o SubSeq(f[2], Len(Https) + 1, Len(f[2])) : f \in FeedSources}

\* process_feed_entries on each document a URL may serve, under each options
\* record: one evaluation per argument tuple.
FeedEntriesOf ==
    [d \in Docs, feed_url \in AllUrls, o \in AllOptionSets,
     order \in UNION {SetToSeqs(lower_keywords(x.exclude_keywords)) : x \in AllOptionSets},
     aggressive \in {x.aggressive_keywords : x \in AllOptionSets}
                    \cup {lower_keywords(x.aggressive_keywords) : x \in AllOptionSets} |->
        process_feed_entries(d, feed_url, o.start_date, o.end_date, order, aggressive,
                             o.max_length_description)]

\* Lines 236-247 / 257-270: a parsed feed is classified; bozo raises.
\* `wrap` is the exception a raise of process_feed_entries becomes.
Classified(parsed, feed_url, order, aggressive, bozo_exc, wrap) ==
    IF parsed.bozo THEN Raised(bozo_exc)
    ELSE Outcome(FeedEntriesOf[parsed.feed, feed_url, options, order, aggressive], wrap,
                 parsed.feed)

ParseResults ==
    {[bozo |-> TRUE, feed |-> Feed(NoTime, <<>>)]}
    \cup {[bozo |-> FALSE, feed |-> d] : d \in Docs}

Tasks == 1..Len(feeds)

\* The tasks in the order in which they ended; `on` says whether the run
\* keeps that record.
NotRecorded == [on |-> FALSE, order |-> <<>>]
Recorded == [on |-> TRUE, order |-> <<>>]

RunInit ==
    /\ pc = "start"
    /\ entry_point \in {"process_rss_feed", "process_all_feeds"}
    /\ options \in OptionSets
    /\ IF entry_point = "process_rss_feed"
       THEN /\ opml \in OpmlFiles
            /\ feeds = <<>>
            /\ max_concurrent = DefaultMaxConcurrent
       ELSE /\ opml = [error |-> "none", feeds |-> <<>>]
            /\ feeds \in FeedLists(MaxFeeds)
            /\ max_concurrent \in 1..MaxCeiling
    /\ semaphore = 0
    /\ task = <<>>
    /\ result = <<>>
    /\ returned = [all_entries |-> <<>>, skipped_entries |-> <<>>, errors |-> <<>>]
    /\ raised = "none"
    /\ network_used = FALSE
    /\ served = <<>>
    /\ tracing = FALSE
    /\ steps = <<>>
    /\ completed = NotRecorded

\* Lines 329-337: the semaphore and one sem_task per feed, handed to gather.
CreateTasks(l) ==
    /\ feeds' = l
    /\ semaphore' = max_concurrent
    /\ task' = [i \in 1..Len(l) |-> "waiting"]
    /\ result' = [i \in 1..Len(l) |-> NoResult]
    /\ served' = [i \in 1..Len(l) |-> NoFeed]
    /\ steps' = [i \in 1..Len(l) |-> <<>>]
    /\ pc' = "gather"

\* process_rss_feed, except that a failure of read_opml is swallowed and
\* the run goes on with an empty feed list.
ProcessRssFeedIgnoringError ==
    /\ pc = "start" /\ entry_point = "process_rss_feed"
    /\ IF opml.error # "none"
       THEN /\ CreateTasks(<<>>)
            /\ UNCHANGED raised
       ELSE IF SortRaises(opml.feeds)
       THEN /\ pc' = "raised"
            /\ raised' = "TypeError"
            /\ UNCHANGED <<feeds, semaphore, task, result, served, steps>>
       ELSE /\ CreateTasks(SortedByTitle(opml.feeds))
            /\ UNCHANGED raised
    /\ UNCHANGED <<opml, options, entry_point, tracing, max_concurrent, returned, network_used,
                   completed>>

\* process_rss_feed, lines 43-57: read_opml, sort, start process_all_feeds.
ProcessRssFeed ==
    /\ pc = "start" /\ entry_point = "process_rss_feed"
    /\ IF opml.error # "none"
       THEN /\ pc' = "raised"
            /\ raised' = (IF opml.error = "Exception" THEN "RuntimeError" ELSE opml.error)
            /\ UNCHANGED <<feeds, semaphore, task, result, served, steps>>
       ELSE IF SortRaises(opml.feeds)
       THEN /\ pc' = "raised"
            /\ raised' = "TypeError"
            /\ UNCHANGED <<feeds, semaphore, task, result, served, steps>>
       ELSE /\ CreateTasks(SortedByTitle(opml.feeds))
            /\ UNCHANGED raised
    /\ UNCHANGED <<opml, options, entry_point, tracing, max_concurrent, returned, network_used,
                   completed>>

\* A run over one feed, which records the steps of the feed's task
ChainInit ==
    /\ pc = "start"
    /\ entry_point \in {"process_rss_feed", "process_all_feeds"}
    /\ options \in OptionSets
    /\ IF entry_point = "process_rss_feed"
       THEN /\ opml \in {[error |-> "none", feeds |-> <<f>>] : f \in ChainFeeds}
            /\ feeds = <<>>
            /\ max_concurrent = DefaultMaxConcurrent
       ELSE /\ opml = [error |-> "none", feeds |-> <<>>]
            /\ feeds \in {<<f>> : f \in ChainFeeds}
            /\ max_concurrent = 1
    /\ semaphore = 0
    /\ task = <<>>
    /\ result = <<>>
    /\ returned = [all_entries |-> <<>>, skipped_entries |-> <<>>, errors |-> <<>>]
    /\ raised = "none"
    /\ network_used = FALSE
    /\ served = <<>>
    /\ tracing = TRUE
    /\ steps = <<>>
    /\ completed = NotRecorded

\* A run over two feeds, with fewer slots than feeds, as many, or the
\* default number
FairFeeds == <<FeedCatalogue[2], FeedCatalogue[1]>>

FairInit ==
    /\ pc = "start"
    /\ entry_point \in {"process_rss_feed", "process_all_feeds"}
    /\ options \in {o \in OptionSets : o.aggressive_keywords # {}}
    /\ IF entry_point = "process_rss_feed"
       THEN /\ opml = [error |-> "none", feeds |-> Reversed(FairFeeds)]
            /\ feeds = <<>>
            /\ max_concurrent = DefaultMaxConcurrent
       ELSE /\ opml = [error |-> "none", feeds |-> <<>>]
            /\ feeds = FairFeeds
            /\ max_concurrent \in 1..MaxCeiling
    /\ semaphore = 0
    /\ task = <<>>
    /\ result = <<>>
    /\ returned = [all_entries |-> <<>>, skipped_entries |-> <<>>, errors |-> <<>>]
    /\ raised = "none"
    /\ network_used = FALSE
    /\ served = <<>>
    /\ tracing = FALSE
    /\ steps = <<>>
    /\ completed = NotRecorded

\* A run that records the order in which its tasks end
OrderInit ==
    /\ pc = "start"
    /\ entry_point \in {"process_rss_feed", "process_all_feeds"}
    /\ options \in {o \in OptionSets : o.aggressive_keywords # {}}
    /\ IF entry_point = "process_rss_feed"
       THEN /\ opml \in {f \in OpmlFiles : f.error = "none"}
            /\ feeds = <<>>
            /\ max_concurrent = DefaultMaxConcurrent
       ELSE /\ opml = [error |-> "none", feeds |-> <<>>]
            /\ feeds \in FeedLists(MaxFeeds)
            /\ max_concurrent \in 1..MaxCeiling
    /\ semaphore = 0
    /\ task = <<>>
    /\ result = <<>>
    /\ returned = [all_entries |-> <<>>, skipped_entries |-> <<>>, errors |-> <<>>]
    /\ raised = "none"
    /\ network_used = FALSE
    /\ served = <<>>
    /\ tracing = FALSE
    /\ steps = <<>>
    /\ completed = Recorded

\* A direct call of process_all_feeds(feeds, ..., max_concurrent).
ProcessAllFeeds ==
    /\ pc = "start" /\ entry_point = "process_all_feeds"
    /\ CreateTasks(feeds)
    /\ UNCHANGED <<opml, options, entry_point, tracing, max_concurrent, returned, raised,
                   network_used,
                   completed>>

\* Acquire, except that the semaphore's value is not tested.
AcquireUnbounded(i) ==
    /\ pc = "gather" /\ task[i] = "waiting"
    /\ semaphore' = semaphore - 1
    /\ task' = [task EXCEPT ![i] = "get"]
    /\ UNCHANGED <<pc, opml, feeds, options, entry_point, tracing, max_concurrent, result,
                   returned, raised, network_used, served, steps,
                   completed>>

\* Line 333: async with semaphore, entered.
Acquire(i) ==
    /\ pc = "gather" /\ task[i] = "waiting"
    /\ semaphore > 0
    /\ semaphore' = semaphore - 1
    /\ task' = [task EXCEPT ![i] = "get"]
    /\ UNCHANGED <<pc, opml, feeds, options, entry_point, tracing, max_concurrent, result,
                   returned, raised, network_used, served, steps,
                   completed>>

\* Finish, except that the slot is given back only when the fetch did not
\* raise.
Finish_slot_kept_on_error(i, fetched) ==
    /\ result' = [result EXCEPT ![i] = process_feed_async(feeds[i][1], feeds[i][2], fetched)]
    /\ task' = [task EXCEPT ![i] = "done"]
    /\ served' = [served EXCEPT ![i] = fetched.feed]
    /\ semaphore' = IF fetched.exc = "none" THEN semaphore + 1 ELSE semaphore
    /\ completed' = IF completed.on THEN [completed EXCEPT !.order = Append(@, i)]
                    ELSE completed

\* The end of sem_task for feed i: process_feed_async returns (or lets the
\* exception through), the semaphore is released.
Finish(i, fetched) ==
    /\ result' = [result EXCEPT ![i] = process_feed_async(feeds[i][1], feeds[i][2], fetched)]
    /\ task' = [task EXCEPT ![i] = "done"]
    /\ served' = [served EXCEPT ![i] = fetched.feed]
    /\ semaphore' = semaphore + 1
    /\ completed' = IF completed.on THEN [completed EXCEPT !.order = Append(@, i)]
                    ELSE completed

Goto(i, where) ==
    /\ task' = [task EXCEPT ![i] = where]
    /\ UNCHANGED <<result, semaphore, served, completed>>

\* One call made by the task of a feed: what was called, for which URL,
\* and how it ended.
Ev(op, url, out) == [op |-> op, url |-> url, out |-> out]

Log(i, events) ==
    steps' = IF tracing THEN [steps EXCEPT ![i] = @ \o events] ELSE steps

\* feedparser.parse and, for a well-formed feed, process_feed_entries,
\* whose outcome is c
ParseEvents(op, url, parsed, c) ==
    IF parsed.bozo THEN <<Ev(op, url, "bozo")>>
    ELSE <<Ev(op, url, "ok"),
           Ev("classify", url, IF c.exc = "none" THEN "ok" ELSE "raise")>>

\* a fetch that gave bytes, clean_feed_content on them, then the parse
CleanedParseEvents(fetch_op, url, parsed, c) ==
    <<Ev(fetch_op, url, "ok"), Ev("clean", url, "ok")>>
    \o ParseEvents("parse", url, parsed, c)

\* Lines 232-233 and 240-245: session.get and raise_for_status.
SessionGet(i) ==
    /\ pc = "gather" /\ task[i] = "get"
    /\ network_used' = TRUE
    /\ \E outcome \in {"ok", "403", "status", "ConnectionResetError",
                       "ClientConnectorSSLError"} :
          /\ Log(i, <<Ev("get", feeds[i][2], outcome)>>)
          /\ IF outcome = "ok" THEN Goto(i, "read")
             ELSE IF outcome = "403" THEN Goto(i, "fb_parse")
             ELSE IF outcome = "status"
             THEN Finish(i, Raised("RuntimeError: Failed to fetch"))
             ELSE Finish(i, Raised(outcome))
    /\ UNCHANGED <<pc, opml, feeds, options, entry_point, tracing, max_concurrent, returned,
                   raised>>

\* The classification of a parsed feed in the async fetch, line 247
AsyncClassified(i, parsed, order) ==
    Classified(parsed, feeds[i][2], order, options.aggressive_keywords,
               "RuntimeError: Feed parsing error", "AttributeError")

\* Lines 234-238 and 247: response.read, clean, parse, classify.
ResponseRead(i) ==
    /\ pc = "gather" /\ task[i] = "read"
    /\ \/ \E e \in {"ConnectionResetError", "ClientError"} :
             /\ Finish(i, Raised(e))
             /\ Log(i, <<Ev("read", feeds[i][2], e)>>)
       \/ \E parsed \in ParseResults,
             order \in SetToSeqs(lower_keywords(options.exclude_keywords)) :
             /\ Finish(i, AsyncClassified(i, parsed, order))
             /\ Log(i, CleanedParseEvents("read", feeds[i][2], parsed,
                                          AsyncClassified(i, parsed, order)))
    /\ UNCHANGED <<pc, opml, feeds, options, entry_point, tracing, max_concurrent, returned,
                   raised, network_used>>

(* fetch_articles_sync_fallback, run in the executor while sem_task holds
   its semaphore slot *)

\* Line 274
fallback_url_of(feed_url) == Http \o SubSeq(feed_url, Len(Https) + 1, Len(feed_url))

\* Lines 253-254
FallbackExclude == lower_keywords(lower_keywords(options.exclude_keywords))
FallbackAggressive == lower_keywords(options.aggressive_keywords)

\* Lines 277-279: the result is returned, or the exception caught and the
\* final fallback entered.
FinishOrFinal(i, c) == IF c.exc = "none" THEN Finish(i, c) ELSE Goto(i, "fb_final")

\* Lines 272-291, except that the scheme of feed_url is not tested.
SslHandler_any_scheme(i) == Goto(i, "fb_http_parse")

\* Lines 272-291: ssl.SSLError out of try_parse_feed(feed_url).
SslHandler(i) ==
    IF StartsWith(feeds[i][2], Https)
    THEN Goto(i, "fb_http_parse")
    ELSE Finish(i, Raised("RuntimeError: SSL error while accessing"))

\* Line 270: process_feed_entries on the feed try_parse_feed(feed_url) gave
FbClassified(i, parsed, order) ==
    Classified(parsed, feeds[i][2], order, FallbackAggressive,
               "RuntimeError: Fallback sync fetch failed",
               "RuntimeError: Fallback sync fetch failed")

\* Line 277: process_feed_entries on the feed try_parse_feed(fallback_url) gave
FbHttpClassified(i, parsed, order) ==
    Classified(parsed, fallback_url_of(feeds[i][2]), order, FallbackAggressive,
               "Exception", "Exception")

\* Lines 284-287: the parse of the final fallback and process_feed_entries
FbFinalClassified(i, parsed, order) ==
    Classified(parsed, feeds[i][2], order, FallbackAggressive,
               "RuntimeError: SSL error, fallbacks all failed",
               "RuntimeError: SSL error, fallbacks all failed")

\* Line 257 for feed_url, then line 270.
FbParse(i) ==
    /\ pc = "gather" /\ task[i] = "fb_parse"
    /\ network_used' = TRUE
    /\ \/ \E parsed \in ParseResults, order \in SetToSeqs(FallbackExclude) :
             /\ IF parsed.bozo THEN Goto(i, "fb_requests")
                ELSE Finish(i, FbClassified(i, parsed, order))
             /\ Log(i, ParseEvents("parse_url", feeds[i][2], parsed,
                                   FbClassified(i, parsed, order)))
       \/ SslHandler(i) /\ Log(i, <<Ev("parse_url", feeds[i][2], "ssl")>>)
       \/ /\ Finish(i, Raised("RuntimeError: Fallback sync fetch failed"))
          /\ Log(i, <<Ev("parse_url", feeds[i][2], "exc")>>)
    /\ UNCHANGED <<pc, opml, feeds, options, entry_point, tracing, max_concurrent, returned,
                   raised>>

\* Lines 260-265 for feed_url, then line 270.
FbRequests(i) ==
    /\ pc = "gather" /\ task[i] = "fb_requests"
    /\ network_used' = TRUE
    /\ \/ \E parsed \in ParseResults, order \in SetToSeqs(FallbackExclude) :
             /\ Finish(i, FbClassified(i, parsed, order))
             /\ Log(i, CleanedParseEvents("requests", feeds[i][2], parsed,
                                          FbClassified(i, parsed, order)))
       \/ SslHandler(i) /\ Log(i, <<Ev("requests", feeds[i][2], "ssl")>>)
       \/ /\ Finish(i, Raised("RuntimeError: Fallback sync fetch failed"))
          /\ Log(i, <<Ev("requests", feeds[i][2], "exc")>>)
    /\ UNCHANGED <<pc, opml, feeds, options, entry_point, tracing, max_concurrent, returned,
                   raised>>

\* Lines 276-278: line 257 for fallback_url, then line 277; every
\* exception leads to the final fallback.
FbHttpParse(i) ==
    /\ pc = "gather" /\ task[i] = "fb_http_parse"
    /\ network_used' = TRUE
    /\ \/ \E parsed \in ParseResults, order \in SetToSeqs(FallbackExclude) :
             /\ IF parsed.bozo THEN Goto(i, "fb_http_requests")
                ELSE FinishOrFinal(i, FbHttpClassified(i, parsed, order))
             /\ Log(i, ParseEvents("parse_url", fallback_url_of(feeds[i][2]), parsed,
                                   FbHttpClassified(i, parsed, order)))
       \/ /\ Goto(i, "fb_final")
          /\ Log(i, <<Ev("parse_url", fallback_url_of(feeds[i][2]), "exc")>>)
    /\ UNCHANGED <<pc, opml, feeds, options, entry_point, tracing, max_concurrent, returned,
                   raised>>

\* Lines 260-265 for fallback_url, then line 277.
FbHttpRequests(i) ==
    /\ pc = "gather" /\ task[i] = "fb_http_requests"
    /\ network_used' = TRUE
    /\ \/ \E parsed \in ParseResults, order \in SetToSeqs(FallbackExclude) :
             /\ FinishOrFinal(i, FbHttpClassified(i, parsed, order))
             /\ Log(i, CleanedParseEvents("requests", fallback_url_of(feeds[i][2]),
                                          parsed, FbHttpClassified(i, parsed, order)))
       \/ /\ Goto(i, "fb_final")
          /\ Log(i, <<Ev("requests", fallback_url_of(feeds[i][2]), "exc")>>)
    /\ UNCHANGED <<pc, opml, feeds, options, entry_point, tracing, max_concurrent, returned,
                   raised>>

\* Lines 280-289: requests.get of feed_url, clean, parse, classify; every
\* exception becomes the RuntimeError of line 289.
FbFinal(i) ==
    /\ pc = "gather" /\ task[i] = "fb_final"
    /\ network_used' = TRUE
    /\ \/ \E parsed \in ParseResults, order \in SetToSeqs(FallbackExclude) :
             /\ Finish(i, FbFinalClassified(i, parsed, order))
             /\ Log(i, CleanedParseEvents("requests_final", feeds[i][2], parsed,
                                          FbFinalClassified(i, parsed, order)))
       \/ /\ Finish(i, Raised("RuntimeError: SSL error, fallbacks all failed"))
          /\ Log(i, <<Ev("requests_final", feeds[i][2], "exc")>>)
    /\ UNCHANGED <<pc, opml, feeds, options, entry_point, tracing, max_concurrent, returned,
                   raised>>

\* Extend, except that the error is appended without the test of line 346.
ExtendAlways(a, r) ==
    [all_entries |-> a.all_entries \o r.recent,
     skipped_entries |-> a.skipped_entries \o r.skipped,
     errors |-> Append(a.errors, r.error)]

\* Lines 343-347 for one result
Extend(a, r) ==
    [all_entries |-> a.all_entries \o r.recent,
     skipped_entries |-> a.skipped_entries \o r.skipped,
     errors |-> IF r.error # NoError THEN Append(a.errors, r.error) ELSE a.errors]

RECURSIVE Aggregate_as_completed(_, _)
\* Aggregate, except that the results are taken in the order in which the
\* tasks ended, as a loop over asyncio.as_completed would take them.
Aggregate_as_completed(results, n) ==
    IF n = 0 THEN [all_entries |-> <<>>, skipped_entries |-> <<>>, errors |-> <<>>]
    ELSE Extend(Aggregate_as_completed(results, n - 1), results[completed.order[n]])

RECURSIVE Aggregate(_, _)
\* Lines 339-347 over results[1..n]
Aggregate(results, n) ==
    IF n = 0 THEN [all_entries |-> <<>>, skipped_entries |-> <<>>, errors |-> <<>>]
    ELSE Extend(Aggregate(results, n - 1), results[n])

\* Gather, except that the results are handed back as soon as one task is
\* done.
GatherFirstDone ==
    /\ pc = "gather"
    /\ \E i \in Tasks : task[i] = "done"
    /\ returned' = Aggregate(result, Len(result))
    /\ pc' = "returned"
    /\ UNCHANGED <<opml, feeds, options, entry_point, tracing, max_concurrent, semaphore, task,
                   result, network_used, served, steps, raised,
                   completed>>

\* Lines 337-349: gather hands back the results once every task is done,
\* or raises the first exception a task let through; then the run returns.
Gather ==
    /\ pc = "gather"
    /\ IF \E i \in Tasks : task[i] = "done" /\ result[i].exc # "none"
       THEN /\ pc' = "raised"
            /\ \E i \in Tasks : task[i] = "done" /\ result[i].exc # "none"
                                /\ raised' = result[i].exc
            /\ UNCHANGED returned
       ELSE /\ \A i \in Tasks : task[i] = "done"
            /\ returned' = Aggregate(result, Len(result))
            /\ pc' = "returned"
            /\ UNCHANGED raised
    /\ UNCHANGED <<opml, feeds, options, entry_point, tracing, max_concurrent, semaphore, task,
                   result, network_used, served, steps,
                   completed>>

----------------------------------------------------------------------------
(* rss_processor.py: the thread-pool scheduler *)

\* What process_feed(feedtitle, feed_url, ..., lock, all_entries_queue) does
\* in its worker thread. rss_processor.py imports it from rss_reader, which
\* does not define it; it is taken as the spec's per-feed task: it puts the
\* feed's entries on the queue and returns (entries, None), or returns
\* ([], (feedTitle, feedUrl, cause)), or lets an exception escape.
ProcessFeedOutcomes(feedtitle, feed_url) ==
    {[exc |-> "none", entries |-> n, error |-> NoError] : n \in 0..1}
    \cup {[exc |-> "none", entries |-> 0,
           error |-> <<feedtitle, feed_url, cause>>] :
             cause \in {"ConnectionResetError", "RuntimeError"}}
    \cup {[exc |-> "Exception", entries |-> 0, error |-> NoError]}

TpFutures == 1..Len(tp_feeds)

TpInit ==
    /\ tp_pc = "start"
    /\ tp_opml \in OpmlFiles
    /\ tp_feeds = <<>>
    /\ tp_future = <<>>
    /\ tp_queue = <<>>
    /\ tp_errors = <<>>
    /\ tp_raised = "none"

\* Lines 29-50: read_opml, sort, submit one future per feed. The unpacking
\* at line 33 takes the four values of the read_opml this module was
\* written against.
TpSubmit ==
    /\ tp_pc = "start"
    /\ IF tp_opml.error # "none"
       THEN /\ tp_pc' = "raised"
            /\ tp_raised' = (IF tp_opml.error = "Exception" THEN "RuntimeError"
                             ELSE tp_opml.error)
            /\ UNCHANGED <<tp_feeds, tp_future>>
       ELSE IF SortRaises(tp_opml.feeds)
       THEN /\ tp_pc' = "raised"
            /\ tp_raised' = "TypeError"
            /\ UNCHANGED <<tp_feeds, tp_future>>
       ELSE /\ tp_pc' = "pool"
            /\ tp_feeds' = SortedByTitle(tp_opml.feeds)
            /\ tp_future' = [i \in 1..Len(tp_opml.feeds) |-> "running"]
            /\ UNCHANGED tp_raised
    /\ UNCHANGED <<tp_opml, tp_queue, tp_errors>>

\* Lines 52-60: as_completed yields the future of feed i, in whatever order
\* the workers finish; the loop body handles its result.
TpCompleted(i) ==
    /\ tp_pc = "pool" /\ tp_future[i] = "running"
    /\ \E o \in ProcessFeedOutcomes(tp_feeds[i][1], tp_feeds[i][2]) :
          /\ tp_queue' = tp_queue \o [k \in 1..o.entries |-> tp_feeds[i][2]]
          /\ tp_errors' =
                IF o.exc # "none"
                THEN Append(tp_errors, <<tp_feeds[i][1], tp_feeds[i][2]>>)
                ELSE IF o.error # NoError THEN Append(tp_errors, o.error)
                ELSE tp_errors
    /\ tp_future' = [tp_future EXCEPT ![i] = "handled"]
    /\ UNCHANGED <<tp_pc, tp_opml, tp_feeds, tp_raised>>

\* Lines 62-66: the with block is left once every future is done; the queue
\* is drained and the run returns.
TpReturn ==
    /\ tp_pc = "pool"
    /\ \A i \in TpFutures : tp_future[i] = "handled"
    /\ tp_pc' = "returned"
    /\ UNCHANGED <<tp_opml, tp_feeds, tp_future, tp_queue, tp_errors, tp_raised>>

----------------------------------------------------------------------------
(* The Cache Store and the Retriever *)
(* main.py builds FeedOptions(ignore_cache, no_conditional_cache) and      *)
(* config.py declares CACHE_MAX_AGE_SECONDS, IGNORE_CACHE and              *)
(* NO_CONDITIONAL_CACHE, but the rss_reader.py at hand has neither         *)
(* FeedOptions nor a cache: the Cache Store and the Retriever's algorithm  *)
(* are taken from the specification, sections 4.1 and 4.2.                 *)

CACHE_MAX_AGE_SECONDS == 600

MaxFetches == 2
MaxTicks == 3

NoEntry == [k |-> "absent"]
CacheEntry(body, fetched_at, meta) ==
    [k |-> "entry", body |-> body, fetched_at |-> fetched_at, meta |-> meta]

\* 4.1: isFresh(entry, maxAgeSeconds), true iff now - entry.fetchedAt < maxAgeSeconds
isFresh_inverted(entry, now, max_age) == now - entry.fetched_at >= max_age
isFresh(entry, now, max_age) == now - entry.fetched_at < max_age

\* 4.2 step 1: the cheap path is taken
CheapPath(cache, now, o) ==
    /\ ~o.ignore_cache
    /\ o.no_conditional_cache
    /\ cache.k = "entry"
    /\ isFresh(cache, now, CACHE_MAX_AGE_SECONDS)

\* 4.2 step 2: If-Modified-Since / If-None-Match are attached
Conditional(cache, o) ==
    ~o.no_conditional_cache /\ cache.k = "entry" /\ cache.meta

Returned(calls, status, body, from_cache, cache) ==
    [calls |-> calls, status |-> status, exc |-> "none", body |-> body,
     from_cache |-> from_cache, cache |-> cache]

RetrievalError(cache) ==
    [calls |-> 1, status |-> "exception", exc |-> "RetrievalError", body |-> "none",
     from_cache |-> FALSE, cache |-> cache]

\* 4.2 step 4: HTTP 304 with an existing cache entry
On304_overwrite(cache) ==
    Returned(1, "304", cache.body, FALSE, [cache EXCEPT !.meta = FALSE])
On304(cache) == Returned(1, "304", cache.body, TRUE, cache)

\* 4.2 step 5: success; 4.1: a failed cache write is swallowed
On2xx(cache, now, o, net) ==
    Returned(1, "200", net.body, FALSE,
             IF o.ignore_cache \/ ~net.write_ok THEN cache
             ELSE CacheEntry(net.body, now, ~o.no_conditional_cache /\ net.meta))

\* 4.2 step 6: any transport exception
OnException_never(cache) == RetrievalError(cache)
OnException(cache) ==
    IF cache.k = "entry" THEN Returned(1, "exception", cache.body, TRUE, cache)
    ELSE RetrievalError(cache)

\* 4.2: fetch(source, options), given what the network does if it is asked
RetrieverFetch(cache, now, o, net) ==
    IF CheapPath(cache, now, o) THEN Returned(0, "cache", cache.body, TRUE, cache)
    ELSE IF net.status = "304" THEN On304(cache)
    ELSE IF net.status = "200" THEN On2xx(cache, now, o, net)
    ELSE OnException(cache)

\* The bodies the origin serves, by name, and what feedparser makes of them
Bodies == {"news", "stale"}
BodyDoc(body) == IF body = "news" THEN DocNews ELSE DocStale

\* What the network does with one GET: the status, and for a 2xx the body,
\* whether revalidation metadata came with it, and whether the cache write
\* goes through.
Networks ==
    [status : {"200"}, body : Bodies, meta : BOOLEAN, write_ok : BOOLEAN]
    \cup [status : {"304", "exception"}, body : {"none"}, meta : {FALSE},
          write_ok : {TRUE}]

CachedFeed == FeedCatalogue[2]
CacheRunOptions ==
    CHOOSE o \in OptionSets : o.aggressive_keywords = {}

\* The task of the feed around one fetch: process_feed_async on what the
\* fetch gave.
TaskOn(r) ==
    process_feed_async(CachedFeed[1], CachedFeed[2],
        IF r.exc # "none" THEN Raised(r.exc)
        ELSE Outcome(FeedEntriesOf[BodyDoc(r.body), CachedFeed[2], CacheRunOptions,
                        CHOOSE q \in SetToSeqs(lower_keywords(
                                        CacheRunOptions.exclude_keywords)) : TRUE,
                        {}],
                     "RuntimeError", BodyDoc(r.body)))

\* TaskOn, one evaluation per outcome of the fetch
TaskResults ==
    [exc \in {"none", "RetrievalError"}, body \in Bodies \cup {"none"} |->
        TaskOn([exc |-> exc, body |-> body])]

TaskAfter(r) == TaskResults[r.exc, r.body]

CacheInit ==
    /\ k_pc = "ready"
    /\ k_options \in [ignore_cache : BOOLEAN, no_conditional_cache : BOOLEAN]
    /\ k_cache \in {NoEntry} \cup {CacheEntry(b, 0, m) : b \in Bodies, m \in BOOLEAN}
    /\ k_now = 0
    /\ k_log = <<>>

\* Time passes between two fetches.
Tick ==
    /\ k_pc = "ready"
    /\ k_now < MaxTicks * 300
    /\ k_now' = k_now + 300
    /\ UNCHANGED <<k_pc, k_options, k_cache, k_log>>

\* One fetch of the feed by its task, whose result is TaskAfter of what
\* the fetch gave. A 304 answers a conditional request only.
Fetch ==
    /\ k_pc = "ready"
    /\ Len(k_log) < MaxFetches
    /\ \E net \in Networks :
          /\ net.status = "304" => Conditional(k_cache, k_options)
          /\ k_cache' = RetrieverFetch(k_cache, k_now, k_options, net).cache
          /\ k_log' = Append(k_log,
                [at |-> k_now, before |-> k_cache,
                 conditional |-> ~CheapPath(k_cache, k_now, k_options)
                                 /\ Conditional(k_cache, k_options),
                 got |-> RetrieverFetch(k_cache, k_now, k_options, net)])
    /\ UNCHANGED <<k_pc, k_options, k_now>>

----------------------------------------------------------------------------
(* rss_reader.py: clean_feed_content *)
(* A byte is a string naming it: "&", "l", ";" for the ASCII letters and   *)
(* signs, "TAB", "CR", "LF", "SP", "NUL" (any of the control characters    *)
(* the function removes), and "EF", "BF", "BE", the bytes of the UTF-8     *)
(* encodings of U+FFFE (EF BF BE), U+FFFF (EF BF BF), U+FFBE and U+FFBF.   *)
(* A decoded character is the tuple of the bytes that encode it.           *)

MaxBytes == 4

ByteAlphabet == {"&", "l", "t", ";", "TAB", "CR", "LF", "NUL", "EF", "BF", "BE"}
Continuation == {"BF", "BE"}

RECURSIVE decode(_)
\* Line 100: content.decode('utf-8', errors='ignore'). A lead byte EF with
\* two continuation bytes is one character; an incomplete sequence and a
\* stray continuation byte are dropped.
decode(content) ==
    IF content = <<>> THEN <<>>
    ELSE IF content[1] = "EF"
    THEN IF Len(content) >= 3 /\ content[2] \in Continuation
              /\ content[3] \in Continuation
         THEN << SubSeq(content, 1, 3) >> \o decode(SubSeq(content, 4, Len(content)))
         ELSE IF Len(content) >= 2 /\ content[2] \in Continuation
         THEN decode(SubSeq(content, 3, Len(content)))
         ELSE decode(Tail(content))
    ELSE IF content[1] \in Continuation THEN decode(Tail(content))
    ELSE << <<content[1]>> >> \o decode(Tail(content))

RECURSIVE encode(_)
\* Line 117: text.encode('utf-8')
encode(text) == IF text = <<>> THEN <<>> ELSE text[1] \o encode(Tail(text))

\* Line 103: text.replace('\t', ' ')
replace_tabs(text) ==
    [i \in 1..Len(text) |-> IF text[i] = <<"TAB">> THEN <<"SP">> ELSE text[i]]

\* Line 106: re.sub(r'[\x00-\x08\x0B\x0C\x0E-\x1F]', '', text)
remove_controls(text) == SelectSeq(text, LAMBDA c : c # <<"NUL">>)

\* Line 109: re.sub(r'[\uFFFE\uFFFF\uD800-\uDFFF]', '', text); no surrogate
\* comes out of the decoder.
remove_illegal(text) ==
    SelectSeq(text, LAMBDA c : c \notin {<<"EF", "BF", "BE">>, <<"EF", "BF", "BF">>})

Chars(s) == [i \in 1..Len(s) |-> <<s[i]>>]

\* Line 112: amp;|lt;|gt;|apos;|quot;
Entities ==
    {Chars(<<"a", "m", "p", ";">>), Chars(<<"l", "t", ";">>), Chars(<<"g", "t", ";">>),
     Chars(<<"a", "p", "o", "s", ";">>), Chars(<<"q", "u", "o", "t", ";">>)}

\* EntityAt, except that amp; is the only entity recognised.
EntityAt_amp_only(text, i) ==
    i + 3 <= Len(text) /\ SubSeq(text, i, i + 3) = Chars(<<"a", "m", "p", ";">>)

\* the negative lookahead of line 112 fails at position i
EntityAt(text, i) ==
    \E e \in Entities :
        i + Len(e) - 1 <= Len(text) /\ SubSeq(text, i, i + Len(e) - 1) = e

RECURSIVE escape_from(_, _)
escape_from(text, i) ==
    IF i > Len(text) THEN <<>>
    ELSE IF text[i] = <<"&">> /\ ~EntityAt(text, i + 1)
    THEN Chars(<<"&", "a", "m", "p", ";">>) \o escape_from(text, i + 1)
    ELSE <<text[i]>> \o escape_from(text, i + 1)

RECURSIVE escape_every_from(_, _)
escape_every_from(text, i) ==
    IF i > Len(text) THEN <<>>
    ELSE IF text[i] = <<"&">>
    THEN Chars(<<"&", "a", "m", "p", ";">>) \o escape_every_from(text, i + 1)
    ELSE <<text[i]>> \o escape_every_from(text, i + 1)

\* re.sub(r'&', '&amp;', text): every ampersand, entity or not
escape_ampersands_every(text) == escape_every_from(text, 1)
\* Line 112: re.sub(r'&(?!amp;|lt;|gt;|apos;|quot;)', '&amp;', text)
escape_ampersands(text) == escape_from(text, 1)

RECURSIVE replace_crlf(_)
\* Line 115: text.replace('\r\n', '\n')
replace_crlf(text) ==
    IF text = <<>> THEN <<>>
    ELSE IF Len(text) >= 2 /\ text[1] = <<"CR">> /\ text[2] = <<"LF">>
    THEN << <<"LF">> >> \o replace_crlf(SubSeq(text, 3, Len(text)))
    ELSE <<text[1]>> \o replace_crlf(Tail(text))

\* Line 115: .replace('\r', '\n')
replace_cr(text) ==
    [i \in 1..Len(text) |-> IF text[i] = <<"CR">> THEN <<"LF">> ELSE text[i]]

\* Lines 99-117
clean_feed_content(content) ==
    encode(replace_cr(replace_crlf(escape_ampersands(remove_illegal(
        remove_controls(replace_tabs(decode(content))))))))

\* Every byte sequence of length n
BytesOfLen(n) == [1..n -> ByteAlphabet]

\* Longer inputs: an entity split by a control character, by a tab and by
\* an illegal character, line endings around a removed character, and the
\* entities spelt with letters outside ByteAlphabet, whole and cut short.
LongContents(n) ==
    {<<"&", "NUL", "l", "t", ";">>, <<"&", "TAB", "l", "t", ";">>,
     <<"&", "EF", "BF", "BE", "l", "t", ";">>, <<"&", "&", "l", "t", ";">>,
     <<"CR", "NUL", "LF", "CR", "CR", "LF">>, <<"&", "l", "CR", "LF", "t", ";">>,
     <<"&", "a", "m", "p", ";">>, <<"&", "a", "m", "p", ";", "a", "m", "p", ";">>,
     <<"&", "a", "NUL", "m", "p", ";">>, <<"&", "&", "NUL", "l", "t", ";">>,
     <<"&", "q", "u", "o", "t", ";", "&", "a", "p", "o", "s">>,
     <<"&", "g", "t", ";", "&", "a", "p", "o", "s", ";", "&", "g", "t">>}

Contents(n) == UNION {BytesOfLen(k) : k \in 0..n} \cup LongContents(n)

RepairInit ==
    /\ p_pc = "input"
    /\ p_content \in Contents(MaxBytes)
    /\ p_once = <<>>
    /\ p_twice = <<>>

\* clean_feed_content(content)
CleanOnce ==
    /\ p_pc = "input"
    /\ p_once' = clean_feed_content(p_content)
    /\ p_pc' = "once"
    /\ UNCHANGED <<p_content, p_twice>>

\* clean_feed_content on the bytes the first call returned
CleanTwice ==
    /\ p_pc = "once"
    /\ p_twice' = clean_feed_content(p_once)
    /\ p_pc' = "twice"
    /\ UNCHANGED <<p_content, p_once>>

----------------------------------------------------------------------------
(* config.py and main.py: the options of a run *)

\* config.py:62
MAX_CONCURRENT_TASKS == 15

\* config.py:77-84: the list first bound to the name EXCLUDE_KEYWORDS
EXCLUDE_KEYWORDS_list ==
    <<Sponsored,
      <<"a", "d", "v", "e", "r", "t", "i", "s", "e", "m", "e", "n", "t">>,
      <<"g", "i", "v", "e", "a", "w", "a", "y">>,
      <<"c", "l", "i", "c", "k", "b", "a", "i", "t">>,
      <<"a", "d", "v", "e", "r", "t", "o", "r", "i", "a", "l">>,
      <<"p", "a", "i", "d", " ", "c", "o", "n", "t", "e", "n", "t">> >>

\* config.py:102 binds the name again, to False: this is the object
\* `from .config import EXCLUDE_KEYWORDS` (main.py:48) gets. A bool cannot
\* be iterated.
EXCLUDE_KEYWORDS == [iterable |-> FALSE, items |-> <<>>]

\* A path that is None
NoPath == ""

\* config.py:145-152
UserOption(default, yaml_name, cli_name, cli_only, yaml_only) ==
    [default |-> default, yaml_name |-> yaml_name, cli_name |-> cli_name,
     cli_only |-> cli_only, yaml_only |-> yaml_only]

\* config.py:163-197, five of the options: two ordinary ones with a value,
\* an ordinary switch, a cli_only and the yaml_only one. A cli_name is the
\* list of the words that its hyphens join; the cli_name None would be
\* formatted as --None.
build_user_options ==
    [ORDER_BY |-> UserOption("date", "order_by", <<"order", "by">>, FALSE, FALSE),
     EXCLUDE_KEYWORDS |->
        UserOption(FALSE, "exclude_keywords", <<"exclude", "keywords">>, FALSE, FALSE),
     EXCLUDE_KEYWORDS_FILE |->
        UserOption(NoPath, "exclude_keywords_file", <<"exclude", "keywords", "file">>,
                   FALSE, FALSE),
     SETTINGS_YAML |->
        UserOption("settings.yaml", "settings_yaml", <<"settings", "yaml">>, TRUE, FALSE),
     MAX_CONCURRENT_TASKS |->
        UserOption(MAX_CONCURRENT_TASKS, "max_concurrent_tasks", None, FALSE, TRUE)]

OptionNames == DOMAIN build_user_options

\* The value every option has on construction (config.py:148)
Defaults == [n \in OptionNames |-> build_user_options[n].default]

\* One flag of the command line as typed, --flag value or --flag=value,
\* with the value argparse stores for it (True for a switch)
Arg(flag, value) == [flag |-> flag, value |-> value]

\* The flags a command line is made of: full spellings, the abbreviations
\* --order (of --order-by alone) and --exclude (of two flags), and --None.
CommandLineArgs ==
    {Arg(<<"order", "by">>, "title_date"), Arg(<<"order", "by">>, "date"),
     Arg(<<"order">>, "title_date"),
     Arg(<<"exclude", "keywords">>, TRUE), Arg(<<"exclude">>, TRUE),
     Arg(<<"exclude", "keywords", "file">>, "keywords.txt"),
     Arg(<<"settings", "yaml">>, "other.yaml"),
     Arg(None, 1)}

\* Most flags on a command line.
MaxArgs == 2

RECURSIVE ArgLists(_)
ArgLists(n) ==
    IF n = 0 THEN {<<>>}
    ELSE ArgLists(n - 1)
         \cup {Append(l, a) : l \in {x \in ArgLists(n - 1) : Len(x) = n - 1},
                              a \in CommandLineArgs}

\* What load_yaml_config returns for the settings file, or the ValueError
\* it raises (utils.py:191-202, 214-215)
Settings(dict) == [error |-> "none", dict |-> dict]
InvalidSettings == [error |-> "ValueError", dict |-> EmptyDict]

\* The keys a settings file may define, each with the value it gives
YamlValues ==
    [order_by |-> "title_date", exclude_keywords |-> TRUE,
     settings_yaml |-> "third.yaml", max_concurrent_tasks |-> 1]

SettingsFiles ==
    {Settings([k \in keys |-> YamlValues[k]]) : keys \in SUBSET DOMAIN YamlValues}
    \cup {InvalidSettings}

\* the options parse_arguments adds a flag for (main.py:111-286)
WithFlag == {n \in OptionNames : build_user_options[n].cli_name # None}

IsPrefix(a, b) == Len(a) <= Len(b) /\ SubSeq(b, 1, Len(a)) = a

\* argparse: the options a typed flag stands for: the one it spells in
\* full, else every one it abbreviates (parse_args, main.py:288)
OptionsOf(flag) ==
    IF \E n \in WithFlag : build_user_options[n].cli_name = flag
    THEN {n \in WithFlag : build_user_options[n].cli_name = flag}
    ELSE {n \in WithFlag : IsPrefix(flag, build_user_options[n].cli_name)}

\* parse_args ends the process (SystemExit) on a flag that stands for no
\* option or for several
ParseFails(argv) == \E i \in DOMAIN argv : Cardinality(OptionsOf(argv[i].flag)) # 1

RECURSIVE LastValue(_, _, _, _)
\* the value of the last flag among argv[1..i] that stands for option n
LastValue(argv, n, i, default) ==
    IF i = 0 THEN default
    ELSE IF OptionsOf(argv[i].flag) = {n} THEN argv[i].value
    ELSE LastValue(argv, n, i - 1, default)

\* main.py:97-296: the namespace parse_arguments returns, by option
parse_arguments(argv) ==
    [n \in WithFlag |-> LastValue(argv, n, Len(argv), build_user_options[n].default)]

\* config.py:154-156
set_from_yaml(option, value, yaml_dict) ==
    IF ~option.cli_only /\ option.yaml_name \in DOMAIN yaml_dict
    THEN yaml_dict[option.yaml_name]
    ELSE value

\* main.py:389-390
cli_flags(argv) == {argv[i].flag : i \in DOMAIN argv}

\* main.py:384-397 for one option: the YAML value, then the CLI value
resolve(option, n, argv, yaml_dict) ==
    IF ~option.yaml_only /\ option.cli_name \in cli_flags(argv)
    THEN parse_arguments(argv)[n]
    ELSE IF ~option.cli_only /\ option.yaml_name \in DOMAIN yaml_dict
    THEN set_from_yaml(option, option.default, yaml_dict)
    ELSE option.default

\* main.py:380-397: every option after steps 3 to 5
Resolved(argv, yaml_dict) ==
    [n \in OptionNames |-> resolve(build_user_options[n], n, argv, yaml_dict)]

\* What the keyword file named keywords.txt holds, one keyword a line
KeywordsFile == << <<"S", "p", "o", "n", "s", "o", "r", "e", "d">> >>

\* main.py:451-462: the exclude_keywords list, or the exception raised. The
\* file is readable or not; a comprehension over a value that cannot be
\* iterated raises TypeError.
exclude_keywords_of(user_options, readable) ==
    IF ~user_options["EXCLUDE_KEYWORDS"] THEN [exc |-> "none", list |-> <<>>]
    ELSE IF user_options["EXCLUDE_KEYWORDS_FILE"] # NoPath
    THEN IF readable
         THEN [exc |-> "none",
               list |-> [i \in DOMAIN KeywordsFile |-> lower(KeywordsFile[i])]]
         ELSE [exc |-> "OSError", list |-> <<>>]
    ELSE IF EXCLUDE_KEYWORDS.iterable
    THEN [exc |-> "none",
          list |-> [i \in DOMAIN EXCLUDE_KEYWORDS.items |->
                       lower(EXCLUDE_KEYWORDS.items[i])]]
    ELSE [exc |-> "TypeError", list |-> <<>>]

MainIdle ==
    /\ m_pc = "idle"
    /\ m_argv = <<>>
    /\ m_yaml = Settings(EmptyDict)
    /\ m_user_options = Defaults
    /\ m_exclude = <<>>
    /\ m_return = "none"

\* run_cyberfeedbites is called with a command line, and the settings file
\* holds some dict or cannot be loaded.
MainInit ==
    /\ m_pc = "start"
    /\ m_argv \in ArgLists(MaxArgs)
    /\ m_yaml \in SettingsFiles
    /\ m_user_options = Defaults
    /\ m_exclude = <<>>
    /\ m_return = "none"

\* The run ends with a return value or an exit status
Ends(status) ==
    /\ m_pc' = "ended"
    /\ m_return' = status
    /\ m_exclude' = <<>>

\* main.py:430-500: run_main_logic up to its call of process_rss_feed; every
\* exception is caught at line 592 and the run returns 1.
run_main_logic(keywords) ==
    IF keywords.exc # "none" THEN Ends("1")
    ELSE /\ m_pc' = "called"
         /\ m_exclude' = keywords.list
         /\ m_return' = "none"

\* main.py:359-417 and 430-500: run_cyberfeedbites from its start to the
\* call of process_rss_feed. argparse leaves by SystemExit, which the
\* handler of line 413 does not catch; a settings file that cannot be
\* loaded is caught there.
RunCyberfeedbites ==
    /\ m_pc = "start"
    /\ IF ParseFails(m_argv)
       THEN Ends("exit 2") /\ UNCHANGED m_user_options
       ELSE IF m_yaml.error # "none"
       THEN Ends("1") /\ UNCHANGED m_user_options
       ELSE /\ m_user_options' = Resolved(m_argv, m_yaml.dict)
            /\ \E readable \in BOOLEAN :
                  run_main_logic(exclude_keywords_of(Resolved(m_argv, m_yaml.dict),
                                                     readable))
    /\ UNCHANGED <<m_argv, m_yaml>>

\* A run whose settings file defines max_concurrent_tasks or nothing, with
\* an empty command line.
CeilingInit ==
    /\ m_pc = "start"
    /\ m_argv = <<>>
    /\ m_yaml \in {Settings([k \in keys |-> YamlValues[k]]) :
                      keys \in SUBSET {"max_concurrent_tasks"}}
    /\ m_user_options = Defaults
    /\ m_exclude = <<>>
    /\ m_return = "none"

\* main.py:500 and rss_reader.py:41: process_rss_feed is entered with the
\* file name and the options run_main_logic built; no ceiling is among
\* them, and process_all_feeds will be called without one (line 57). The
\* OPML file lists two feeds or does not exist.
CallProcessRssFeed ==
    /\ m_pc = "called" /\ pc = "idle"
    /\ pc' = "start"
    /\ entry_point' = "process_rss_feed"
    /\ options' = [options EXCEPT
                      !.exclude_keywords = {m_exclude[i] : i \in DOMAIN m_exclude},
                      !.aggressive_keywords = {}]
    /\ opml' \in {[error |-> "none", feeds |-> Reversed(FairFeeds)],
                   [error |-> "FileNotFoundError", feeds |-> <<>>]}
    /\ max_concurrent' = DefaultMaxConcurrent
    /\ UNCHANGED <<feeds, semaphore, task, result, returned, raised, network_used, served,
                   tracing, steps, completed>>

\* main.py:500-603: process_rss_feed returned, the reports are written and
\* the run returns 0; an exception of process_rss_feed or of the writers
\* is caught at line 592 and the run returns 1.
ProcessRssFeedEnds ==
    /\ m_pc = "called" /\ pc \in {"returned", "raised"}
    /\ m_pc' = "ended"
    /\ m_return' \in IF pc = "returned" THEN {"0", "1"} ELSE {"1"}
    /\ UNCHANGED <<m_argv, m_yaml, m_user_options, m_exclude>>

----------------------------------------------------------------------------
(* Specifications *)

ClassifyIdle ==
    /\ c_pc = "idle"
    /\ c_entry = Entry(<<>>, <<>>, <<>>, NoTime, NoTime)
    /\ c_exclude = {}
    /\ c_order = <<>>
    /\ c_exceptions = EmptyDict
    /\ c_aggressive = {}
    /\ c_matched = None
    /\ c_aggr = "none"
    /\ c_out = EmptyLists

RunIdle ==
    /\ pc = "idle"
    /\ entry_point = "none"
    /\ options = [start_date |-> 1, end_date |-> 2,
                  max_length_description |-> MAX_LENGTH_DESCRIPTION,
                  exclude_keywords |-> {}, aggressive_keywords |-> {}]
    /\ opml = [error |-> "none", feeds |-> <<>>]
    /\ feeds = <<>>
    /\ max_concurrent = DefaultMaxConcurrent
    /\ semaphore = 0
    /\ task = <<>>
    /\ result = <<>>
    /\ returned = [all_entries |-> <<>>, skipped_entries |-> <<>>, errors |-> <<>>]
    /\ raised = "none"
    /\ network_used = FALSE
    /\ served = <<>>
    /\ tracing = FALSE
    /\ steps = <<>>
    /\ completed = NotRecorded

TpIdle ==
    /\ tp_pc = "idle"
    /\ tp_opml = [error |-> "none", feeds |-> <<>>]
    /\ tp_feeds = <<>>
    /\ tp_future = <<>>
    /\ tp_queue = <<>>
    /\ tp_errors = <<>>
    /\ tp_raised = "none"

CacheIdle ==
    /\ k_pc = "idle"
    /\ k_options = [ignore_cache |-> FALSE, no_conditional_cache |-> TRUE]
    /\ k_cache = NoEntry
    /\ k_now = 0
    /\ k_log = <<>>

RepairIdle ==
    /\ p_pc = "idle"
    /\ p_content = <<>>
    /\ p_once = <<>>
    /\ p_twice = <<>>

\* The variables a run of the asyncio scheduler leaves alone
outside_run == <<cvars, tvars, kvars, pvars, mvars>>

Init == RunInit /\ ClassifyIdle /\ TpIdle /\ CacheIdle /\ RepairIdle /\ MainIdle

Next ==
    \/ ProcessRssFeed /\ UNCHANGED outside_run
    \/ ProcessAllFeeds /\ UNCHANGED outside_run
    \/ \E i \in Tasks : Acquire(i) /\ UNCHANGED outside_run
    \/ \E i \in Tasks : SessionGet(i) /\ UNCHANGED outside_run
    \/ \E i \in Tasks : ResponseRead(i) /\ UNCHANGED outside_run
    \/ \E i \in Tasks : FbParse(i) /\ UNCHANGED outside_run
    \/ \E i \in Tasks : FbRequests(i) /\ UNCHANGED outside_run
    \/ \E i \in Tasks : FbHttpParse(i) /\ UNCHANGED outside_run
    \/ \E i \in Tasks : FbHttpRequests(i) /\ UNCHANGED outside_run
    \/ \E i \in Tasks : FbFinal(i) /\ UNCHANGED outside_run
    \/ Gather /\ UNCHANGED outside_run

\* One run of the scheduler.
Spec == Init /\ [][Next]_vars

InitFair == FairInit /\ ClassifyIdle /\ TpIdle /\ CacheIdle /\ RepairIdle /\ MainIdle

\* One run of the scheduler over two feeds in which the event loop keeps
\* running for as long as some coroutine can take a step (asyncio.run
\* returns only when process_all_feeds has returned).
SpecFair == InitFair /\ [][Next]_vars /\ WF_vars(Next)

InitChain == ChainInit /\ ClassifyIdle /\ TpIdle /\ CacheIdle /\ RepairIdle /\ MainIdle

\* One run of the scheduler over a single feed, with the steps of the
\* feed's task recorded.
SpecChain == InitChain /\ [][Next]_vars

InitOrder == OrderInit /\ ClassifyIdle /\ TpIdle /\ CacheIdle /\ RepairIdle /\ MainIdle

\* One run of the scheduler, with the order in which the tasks end recorded.
SpecOrder == InitOrder /\ [][Next]_vars

outside_classify == <<rvars, tvars, kvars, pvars, mvars>>

ClassifyNext == Classify /\ UNCHANGED outside_classify

InitClassify == ClassifyInit /\ RunIdle /\ TpIdle /\ CacheIdle /\ RepairIdle /\ MainIdle

\* The classifier applied to one entry.
SpecClassify == InitClassify /\ [][ClassifyNext]_vars

outside_pool == <<cvars, rvars, kvars, pvars, mvars>>

InitThreadPool == TpInit /\ ClassifyIdle /\ RunIdle /\ CacheIdle /\ RepairIdle /\ MainIdle

ThreadPoolNext ==
    \/ TpSubmit /\ UNCHANGED outside_pool
    \/ \E i \in TpFutures : TpCompleted(i) /\ UNCHANGED outside_pool
    \/ TpReturn /\ UNCHANGED outside_pool

\* One run of the thread-pool scheduler.
SpecThreadPool == InitThreadPool /\ [][ThreadPoolNext]_vars

outside_cache == <<cvars, rvars, tvars, pvars, mvars>>

InitCache == CacheInit /\ ClassifyIdle /\ RunIdle /\ TpIdle /\ RepairIdle /\ MainIdle

CacheNext ==
    \/ Tick /\ UNCHANGED outside_cache
    \/ Fetch /\ UNCHANGED outside_cache

\* Consecutive fetches of one feed URL through the Retriever.
SpecCache == InitCache /\ [][CacheNext]_vars

outside_repair == <<cvars, rvars, tvars, kvars, mvars>>

InitRepair == RepairInit /\ ClassifyIdle /\ RunIdle /\ TpIdle /\ CacheIdle /\ MainIdle

RepairNext ==
    \/ CleanOnce /\ UNCHANGED outside_repair
    \/ CleanTwice /\ UNCHANGED outside_repair

\* clean_feed_content applied to some bytes, and again to its result.
SpecRepair == InitRepair /\ [][RepairNext]_vars

outside_main == <<cvars, rvars, tvars, kvars, pvars>>

InitMain == MainInit /\ ClassifyIdle /\ RunIdle /\ TpIdle /\ CacheIdle /\ RepairIdle

MainNext == RunCyberfeedbites /\ UNCHANGED outside_main

\* One run of run_cyberfeedbites up to its call of process_rss_feed.
SpecMain == InitMain /\ [][MainNext]_vars

InitCeiling == CeilingInit /\ ClassifyIdle /\ RunIdle /\ TpIdle /\ CacheIdle /\ RepairIdle

CeilingNext ==
    \/ RunCyberfeedbites /\ UNCHANGED outside_main
    \/ CallProcessRssFeed /\ UNCHANGED outside_run
    \/ ProcessRssFeed /\ UNCHANGED outside_run
    \/ \E i \in Tasks : Acquire(i) /\ UNCHANGED outside_run
    \/ \E i \in Tasks : SessionGet(i) /\ UNCHANGED outside_run
    \/ \E i \in Tasks : ResponseRead(i) /\ UNCHANGED outside_run
    \/ \E i \in Tasks : FbParse(i) /\ UNCHANGED outside_run
    \/ \E i \in Tasks : FbRequests(i) /\ UNCHANGED outside_run
    \/ \E i \in Tasks : FbHttpParse(i) /\ UNCHANGED outside_run
    \/ \E i \in Tasks : FbHttpRequests(i) /\ UNCHANGED outside_run
    \/ \E i \in Tasks : FbFinal(i) /\ UNCHANGED outside_run
    \/ Gather /\ UNCHANGED outside_run
    \/ ProcessRssFeedEnds /\ UNCHANGED outside_main

\* One run of run_cyberfeedbites with the run of process_rss_feed it starts.
SpecCeiling == InitCeiling /\ [][CeilingNext]_vars

----------------------------------------------------------------------------
(* Properties *)

\* the positions of list whose article has this link and feed URL
WithLink(list, link, feed_url) ==
    {k \in 1..Len(list) : list[k].link = link /\ list[k].feed_url = feed_url}

\* the positions of list whose article comes from this feed URL
FromFeed(list, feed_url) == {k \in 1..Len(list) : list[k].feed_url = feed_url}

\* the parsed time an entry is dated by: published if present, else updated
DatingTuple(entry) ==
    IF entry.published_parsed.k # "none" THEN entry.published_parsed
    ELSE entry.updated_parsed

\* the entry has a date and it lies in [start_date, end_date]
DatedInRange(entry) ==
    /\ DatingTuple(entry).k = "time"
    /\ options.start_date <= DatingTuple(entry).t
    /\ DatingTuple(entry).t <= options.end_date

InRangeEntries(feed) ==
    {j \in 1..Len(feed.entries) : DatedInRange(feed.entries[j])}

Done(i) == task[i] = "done"
Failed(i) == task[i] = "done" /\ result[i].error # NoError
Succeeded(i) == task[i] = "done" /\ result[i].error = NoError

\* the channel-level updated timestamp is present and earlier than start_date
ChannelStale(feed) ==
    feed.updated_parsed.k = "time" /\ feed.updated_parsed.t < options.start_date

\* each in-range entry of the feed served to task i is exactly once in the
\* two lists together
OnePerEntry(i, recent, skipped) ==
    \A j \in InRangeEntries(served[i]) :
        Cardinality(WithLink(recent, served[i].entries[j].link, feeds[i][2]))
        + Cardinality(WithLink(skipped, served[i].entries[j].link, feeds[i][2])) = 1

NoArticles(i, recent, skipped) ==
    FromFeed(recent, feeds[i][2]) = {} /\ FromFeed(skipped, feeds[i][2]) = {}

\* skipped_reason is carried by exactly the articles of the rejected list
ReasonIffRejected(recent, skipped) ==
    /\ \A k \in 1..Len(recent) : recent[k].skipped_reason = Absent
    /\ \A k \in 1..Len(skipped) :
          skipped[k].skipped_reason # Absent /\ skipped[k].skipped_reason # <<>>

\* C1 as stated: for every feed process_feed_entries returned lists for,
\* each entry dated inside the range is exactly one Article, in exactly one
\* of the accepted and the rejected list, and skipped_reason is carried iff
\* rejected; per feed after clean_articles, and in the aggregated result.
C1_EveryInRangeEntryOnce ==
    /\ \A i \in DOMAIN task :
          Succeeded(i) =>
              /\ OnePerEntry(i, result[i].recent, result[i].skipped)
              /\ ReasonIffRejected(result[i].recent, result[i].skipped)
    /\ pc = "returned" =>
          /\ \A i \in DOMAIN task :
                Succeeded(i) =>
                    OnePerEntry(i, returned.all_entries, returned.skipped_entries)
          /\ ReasonIffRejected(returned.all_entries, returned.skipped_entries)

PartitionOf(i, recent, skipped) ==
    IF result[i].error # NoError \/ ChannelStale(served[i])
    THEN NoArticles(i, recent, skipped)
    ELSE /\ OnePerEntry(i, recent, skipped)
         /\ Cardinality(FromFeed(recent, feeds[i][2]))
            + Cardinality(FromFeed(skipped, feeds[i][2]))
            = Cardinality(InRangeEntries(served[i]))

\* C1, amended: for a feed whose task ended without an error record and
\* whose channel timestamp is absent or not earlier than start_date, each
\* entry dated inside the range is exactly one Article in exactly one of the
\* two lists, and there are no other Articles of that feed; a feed whose
\* channel timestamp is earlier than start_date, or whose task ended with an
\* error record, has no Article in either list; skipped_reason is carried
\* iff the Article is in the rejected list. Per feed after clean_articles
\* and in the aggregated result.
C1_Partition ==
    /\ \A i \in DOMAIN task :
          Done(i) =>
              /\ PartitionOf(i, result[i].recent, result[i].skipped)
              /\ ReasonIffRejected(result[i].recent, result[i].skipped)
    /\ pc = "returned" =>
          /\ \A i \in DOMAIN task :
                PartitionOf(i, returned.all_entries, returned.skipped_entries)
          /\ ReasonIffRejected(returned.all_entries, returned.skipped_entries)

\* A run of two feeds returned; one feed served DocNews and has Articles in
\* both lists of the aggregated result.
C1_Witness ==
    /\ pc = "returned" /\ Len(feeds) = 2
    /\ \E i \in DOMAIN task :
          /\ Succeeded(i) /\ served[i] = DocNews
          /\ FromFeed(returned.all_entries, feeds[i][2]) # {}
          /\ FromFeed(returned.skipped_entries, feeds[i][2]) # {}

\* the entries of the catalogue's documents with this link
EntriesWithLink(link) ==
    {e \in UNION {{d.entries[j] : j \in 1..Len(d.entries)} : d \in Docs} : e.link = link}

DatesInRange(list) ==
    \A k \in 1..Len(list) :
        /\ options.start_date <= list[k].published_date
        /\ list[k].published_date <= options.end_date
        /\ \A e \in EntriesWithLink(list[k].link) : DatedInRange(e)

\* C2: every Article of the accepted and of the rejected list, per feed and
\* in the run's result, has start_date <= published_date <= end_date, and
\* comes from an entry that has a date inside the range.
C2_DatesInRange ==
    /\ \A i \in DOMAIN result :
          DatesInRange(result[i].recent) /\ DatesInRange(result[i].skipped)
    /\ DatesInRange(returned.all_entries)
    /\ DatesInRange(returned.skipped_entries)

\* The run returned Articles dated exactly start_date and exactly end_date,
\* from a document that also holds undated and out-of-range entries.
C2_Witness ==
    /\ pc = "returned"
    /\ \E i \in DOMAIN task : Succeeded(i) /\ served[i] = DocNews
    /\ \E k \in 1..Len(returned.all_entries) :
          returned.all_entries[k].published_date = options.start_date
    /\ \E k \in 1..Len(returned.skipped_entries) :
          returned.skipped_entries[k].published_date = options.end_date

\* the phrases that veto keyword k
PhrasesOf(exceptions, k) ==
    IF k \in DOMAIN exceptions
    THEN {exceptions[k][e] : e \in 1..Len(exceptions[k])}
    ELSE {}

\* keyword k, whatever its case, occurs in text and none of its exception
\* phrases does
KeywordExcludes(k, text, exceptions) ==
    /\ IsSubstring(lower(k), lower(text))
    /\ \A phrase \in PhrasesOf(exceptions, lower(k)) : ~IsSubstring(phrase, lower(text))

\* the keywords of c_exclude, lower-cased, that exclude c_entry's text
Excluding(exceptions) ==
    {lower(k) : k \in {x \in c_exclude :
                          KeywordExcludes(x, raw_text_of(c_entry), exceptions)}}

MatchedReasonsOf(list) ==
    {list[k].skipped_reason : k \in 1..Len(list)} \ {NotCyberReason}

\* C3: matches_exclude_keywords returns a keyword that occurs in the text
\* (case-insensitively) with none of its exception phrases occurring, when
\* there is one, and None otherwise; the pipeline records it as
\* 'Matched keyword: k'; with 'sponsored' and its exception 'state-sponsored',
\* 'State-sponsored actors...' is not excluded and 'This is a sponsored post'
\* is excluded citing 'sponsored'.
C3_ExcludeKeyword ==
    c_pc = "done" =>
        /\ IF Excluding(c_exceptions) = {} THEN c_matched = None
           ELSE c_matched \in Excluding(c_exceptions)
        /\ MatchedReasonsOf(c_out.skipped)
              \subseteq {MatchedReason(k) : k \in Excluding(KEYWORD_EXCEPTIONS)}
        /\ (c_aggr = "True" /\ Excluding(KEYWORD_EXCEPTIONS) # {})
              => MatchedReasonsOf(c_out.skipped) # {}
        /\ (c_entry.title = StateSponsoredActors /\ c_exclude = {Sponsored}
            /\ c_exceptions = KEYWORD_EXCEPTIONS)
              => c_matched = None /\ MatchedReasonsOf(c_out.skipped) = {}
        /\ (c_entry.title = ThisIsASponsoredPost /\ c_exclude = {Sponsored})
              => /\ c_matched = Sponsored
                 /\ c_aggr = "True" =>
                       MatchedReasonsOf(c_out.skipped) = {MatchedReason(Sponsored)}

\* 'State-sponsored actors...' went through the classifier with keyword
\* 'sponsored' and its exception: the keyword occurs, its exception vetoes it.
C3_Witness ==
    /\ c_pc = "done"
    /\ c_entry.title = StateSponsoredActors
    /\ c_exclude = {Sponsored} /\ c_exceptions = KEYWORD_EXCEPTIONS
    /\ IsSubstring(Sponsored, lower(raw_text_of(c_entry)))
    /\ c_matched = None
    /\ c_aggr = "True" /\ Len(c_out.recent) = 1

\* the tag terms of c_entry that are texts
TagTerms ==
    {c_entry.tags[j].term : j \in 1..Len(c_entry.tags)} \ {None, Absent}

\* some aggressive keyword occurs, whatever its case, in a tag term or in
\* the combined text
AggressiveHit ==
    \E kw \in c_aggressive :
        \/ \E term \in TagTerms : IsSubstring(lower(kw), lower(term))
        \/ IsSubstring(lower(kw), lower(raw_text_of(c_entry)))

\* C4: the aggressive check passes for every entry when the aggressive set
\* is empty; otherwise it passes iff some aggressive keyword is a
\* case-insensitive substring of a tag term or of the combined text; an
\* entry that does not pass is in the rejected list.
C4_AggressiveCheck ==
    c_pc = "done" =>
        /\ (c_aggr = "True") <=> (c_aggressive = {} \/ AggressiveHit)
        /\ c_aggr # "True" => Len(c_out.recent) = 0 /\ Len(c_out.skipped) = 1

\* C5: the in-range entry is accepted iff the aggressive check passed and no
\* exclude keyword matches it; when both checks fail the recorded reason is
\* the aggressive check's.
C5_Disposition ==
    c_pc = "done" =>
        /\ (Len(c_out.recent) = 1)
              <=> (c_aggr = "True" /\ Excluding(KEYWORD_EXCEPTIONS) = {})
        /\ (c_aggr = "False" /\ Excluding(KEYWORD_EXCEPTIONS) # {})
              => /\ Len(c_out.skipped) = 1
                 /\ c_out.skipped[1].skipped_reason = NotCyberReason

\* An entry that fails both checks was classified.
C5_Witness ==
    /\ c_pc = "done"
    /\ c_aggr = "False" /\ Excluding(KEYWORD_EXCEPTIONS) # {}
    /\ Len(c_out.skipped) = 1 /\ Len(c_out.recent) = 0

\* the tasks inside process_feed_async: the semaphore is taken and sem_task
\* has not returned, whether in the async fetch or in the executor fallback
Inside == {i \in DOMAIN task : task[i] \notin {"waiting", "done"}}
InFallback ==
    {i \in DOMAIN task :
        task[i] \in {"fb_parse", "fb_requests", "fb_http_parse", "fb_http_requests",
                     "fb_final"}}

\* C6: at most max_concurrent tasks are inside process_feed_async at once,
\* those in the executor fallback included.
C6_AtMostNInside == Cardinality(Inside) <= max_concurrent

\* The ceiling is reached with a task in the executor fallback while
\* another feed waits for the semaphore.
C6_Witness ==
    /\ Cardinality(Inside) = max_concurrent
    /\ InFallback # {}
    /\ \E i \in DOMAIN task : task[i] = "waiting"

\* every ended task returned a triple (no exception left it), a failure as
\* the error record (feedtitle, feed_url, cause); the run raises only
\* before any task exists
C7_Caught ==
    /\ \A i \in DOMAIN task :
          Done(i) =>
              /\ result[i].exc = "none"
              /\ Failed(i) =>
                    /\ Len(result[i].error) = 3
                    /\ result[i].error[1] = feeds[i][1]
                    /\ result[i].error[2] = feeds[i][2]
    /\ pc = "raised" => task = <<>>

\* the step in which a task ends in failure leaves the scheduler gathering
\* and every sibling task as it was
C7_SiblingsUntouched ==
    \A i \in DOMAIN task :
        (task[i] # "done" /\ task'[i] = "done" /\ result'[i].error # NoError)
            => /\ pc' = "gather"
               /\ \A j \in DOMAIN task \ {i} :
                     task'[j] = task[j] /\ result'[j] = result[j]

\* C7: an exception raised while a feed is retrieved, parsed or classified
\* is caught at that feed's task boundary and becomes an error record; it
\* never leaves the scheduler and does not touch a sibling task.
C7_ExceptionsContained == []C7_Caught /\ [][C7_SiblingsUntouched]_vars

\* One task has ended in failure while a sibling is still inside
\* process_feed_async.
C7_Witness ==
    /\ pc = "gather"
    /\ \E i \in DOMAIN task : Failed(i) /\ Inside \ {i} # {}

C8_AllTerminal ==
    pc = "returned" => \A i \in DOMAIN task : Done(i)

\* the scheduler leaves its wait only by returning, and only when every
\* task is done
C8_LeavesWhenAllDone ==
    (pc = "gather" /\ pc' # "gather")
        => pc' = "returned" /\ \A i \in DOMAIN task : Done(i)

\* C8: the scheduler returns only after every task is terminal; no task is
\* pending or running when it returns, and a task's failure does not make
\* it return early.
C8_ReturnsAfterAllTasks == []C8_AllTerminal /\ [][C8_LeavesWhenAllDone]_vars

\* The scheduler returned from a run of two feeds of which one failed.
C8_Witness ==
    /\ pc = "returned" /\ Len(feeds) = 2
    /\ \E i \in DOMAIN task : Failed(i)
    /\ \E i \in DOMAIN task : Succeeded(i)

\* the error records of the run's result that name this feed URL
ErrorsFor(feed_url) ==
    {k \in 1..Len(returned.errors) :
        returned.errors[k] # NoError /\ returned.errors[k][2] = feed_url}

\* C9: each feed contributes either no error record, or exactly one error
\* record and no Article; a feed that succeeds contributes all its Articles
\* whatever happened to its siblings. (A feed whose fallback chain is
\* exhausted ends with the error of line 289.)
C9_OneErrorNoArticles ==
    /\ \A i \in DOMAIN task :
          Failed(i) => result[i].recent = <<>> /\ result[i].skipped = <<>>
    /\ pc = "returned" =>
          /\ Len(returned.errors) = Cardinality({i \in DOMAIN task : Failed(i)})
          /\ \A i \in DOMAIN task :
                IF Failed(i)
                THEN /\ Cardinality(ErrorsFor(feeds[i][2])) = 1
                     /\ NoArticles(i, returned.all_entries, returned.skipped_entries)
                ELSE /\ ErrorsFor(feeds[i][2]) = {}
                     /\ Cardinality(FromFeed(returned.all_entries, feeds[i][2]))
                        = Len(result[i].recent)
                     /\ Cardinality(FromFeed(returned.skipped_entries, feeds[i][2]))
                        = Len(result[i].skipped)

\* The run returned; one feed exhausted its fallback chain, a sibling's
\* Articles are in the result.
C9_Witness ==
    /\ pc = "returned"
    /\ \E i \in DOMAIN task :
          /\ Failed(i)
          /\ result[i].error[3] = "RuntimeError: SSL error, fallbacks all failed"
    /\ \E j \in DOMAIN task :
          Succeeded(j) /\ FromFeed(returned.all_entries, feeds[j][2]) # {}

\* C10: when read_opml fails, process_rss_feed raises at once: no task is
\* created, no network request is issued, nothing is returned.
C10_SourceListErrorIsFatal ==
    (entry_point = "process_rss_feed" /\ opml.error # "none" /\ pc # "start")
        => /\ pc = "raised" /\ raised # "none"
           /\ task = <<>> /\ result = <<>>
           /\ ~network_used
           /\ returned = [all_entries |-> <<>>, skipped_entries |-> <<>>,
                          errors |-> <<>>]

\* read_opml failed on a malformed file and the run has raised.
C10_Witness ==
    pc = "raised" /\ opml.error = "ParseError" /\ raised = "ParseError"

----------------------------------------------------------------------------
\* C11: every element of the errors list a run returns is a triple
\* (feedTitle, feedUrl, cause), whichever scheduler produced it and on
\* whichever failure path, so that a three-way unpacking never fails.
C11_ErrorsAreTriples ==
    /\ pc = "returned" =>
          \A k \in 1..Len(returned.errors) : Len(returned.errors[k]) = 3
    /\ tp_pc = "returned" =>
          \A k \in 1..Len(tp_errors) : Len(tp_errors[k]) = 3

\* The asyncio scheduler's part of C11, which holds of process_feed_async.
C11_AsyncErrorsAreTriples ==
    pc = "returned" =>
       \A k \in 1..Len(returned.errors) : Len(returned.errors[k]) = 3

----------------------------------------------------------------------------
\* Two consecutive fetches, under ignoreCache=false, noConditionalCache=true
Consecutive == {k \in 1..(Len(k_log) - 1) :
                   ~k_options.ignore_cache /\ k_options.no_conditional_cache}

\* C12 as stated: with ignoreCache=false and noConditionalCache=true, two
\* consecutive fetches of the URL less than CACHE_MAX_AGE_SECONDS apart issue
\* at most one network call in total; the second is served from a fresh
\* cache entry without a network call and returns the content the first
\* returned.
C12_TwoFetchesOneCall ==
    \A k \in Consecutive :
        k_log[k + 1].at - k_log[k].at < CACHE_MAX_AGE_SECONDS =>
            /\ k_log[k].got.calls + k_log[k + 1].got.calls <= 1
            /\ k_log[k + 1].got.calls = 0
            /\ k_log[k + 1].got.from_cache
            /\ k_log[k + 1].got.body = k_log[k].got.body

\* The first fetch returned content that the cache holds when it ends, and
\* the second fetch starts less than CACHE_MAX_AGE_SECONDS after that entry
\* was fetched.
LeftFresh(k) ==
    /\ k_log[k].got.exc = "none"
    /\ k_log[k].got.cache.k = "entry"
    /\ k_log[k].got.cache.body = k_log[k].got.body
    /\ k_log[k + 1].at - k_log[k].got.cache.fetched_at < CACHE_MAX_AGE_SECONDS

\* C12, amended: with ignoreCache=false and noConditionalCache=true, when
\* the first of two consecutive fetches returned content that is in the
\* cache when it ends and the second starts while that entry is fresh, the
\* second issues no network call, is served from the cache and returns
\* byte-identical content, and the two issue at most one network call.
C12_FreshEntryOneCall ==
    \A k \in Consecutive :
        LeftFresh(k) =>
            /\ k_log[k].got.calls + k_log[k + 1].got.calls <= 1
            /\ k_log[k + 1].got.calls = 0
            /\ k_log[k + 1].got.from_cache
            /\ k_log[k + 1].got.body = k_log[k].got.body

\* The first fetch went to the network and stored DocNews; the second, 300
\* seconds later, was served from the cache.
C12_Witness ==
    /\ 1 \in Consecutive /\ LeftFresh(1)
    /\ k_log[1].got.status = "200" /\ k_log[1].got.body = "news"
    /\ k_log[2].at = k_log[1].at + 300
    /\ k_log[2].got.status = "cache"

\* C13: a fetch that receives HTTP 304 while a cache entry exists returns
\* the cached body unchanged with fromCache=true and leaves the entry, body
\* and metadata, as it was.
C13_NotModifiedKeepsCache ==
    \A k \in 1..Len(k_log) :
        (k_log[k].got.status = "304" /\ k_log[k].before.k = "entry") =>
            /\ k_log[k].got.exc = "none"
            /\ k_log[k].got.body = k_log[k].before.body
            /\ k_log[k].got.from_cache
            /\ k_log[k].got.cache = k_log[k].before
            /\ k = Len(k_log) => k_cache = k_log[k].before

\* A 200 stored DocNews with metadata; the next fetch was conditional and
\* got a 304.
C13_Witness ==
    /\ Len(k_log) = 2
    /\ k_log[1].got.status = "200" /\ k_log[1].got.cache.k = "entry"
    /\ k_log[2].conditional /\ k_log[2].got.status = "304"
    /\ k_log[2].got.body = "news"

\* The Articles of a body, as process_feed_entries and process_feed_async
\* make them
Articles ==
    [body \in Bodies |->
        [recent |-> Label(FeedEntriesOf[BodyDoc(body), CachedFeed[2], CacheRunOptions,
                              CHOOSE q \in SetToSeqs(lower_keywords(
                                              CacheRunOptions.exclude_keywords)) : TRUE,
                              {}].recent,
                          CachedFeed[1], CachedFeed[2]),
         skipped |-> Label(FeedEntriesOf[BodyDoc(body), CachedFeed[2], CacheRunOptions,
                               CHOOSE q \in SetToSeqs(lower_keywords(
                                               CacheRunOptions.exclude_keywords)) : TRUE,
                               {}].skipped,
                           CachedFeed[1], CachedFeed[2])]]

\* C14: when the network fetch raises a transport exception, the cached
\* body is returned if a cache entry exists, whatever its age, and the feed
\* yields the cached Articles and no error record; the feed ends in a
\* retrieval error only when no entry exists.
C14_CacheOnTransportError ==
    \A k \in 1..Len(k_log) :
        /\ (k_log[k].got.status = "exception" /\ k_log[k].before.k = "entry") =>
              /\ k_log[k].got.exc = "none"
              /\ k_log[k].got.body = k_log[k].before.body
              /\ k_log[k].got.from_cache
              /\ TaskAfter(k_log[k].got).error = NoError
              /\ TaskAfter(k_log[k].got).recent = Articles[k_log[k].before.body].recent
              /\ TaskAfter(k_log[k].got).skipped = Articles[k_log[k].before.body].skipped
        /\ (k_log[k].got.status = "exception" /\ k_log[k].before.k = "absent") =>
              /\ k_log[k].got.exc = "RetrievalError"
              /\ TaskAfter(k_log[k].got).error # NoError
              /\ TaskAfter(k_log[k].got).recent = <<>> /\ TaskAfter(k_log[k].got).skipped = <<>>
        /\ k_log[k].got.exc = "RetrievalError" => k_log[k].before.k = "absent"

\* The entry is 900 seconds old, the fetch raised, and the feed gave the
\* Articles of the cached DocNews.
C14_Witness ==
    \E k \in 1..Len(k_log) :
        /\ k_log[k].got.status = "exception"
        /\ k_log[k].before.k = "entry"
        /\ k_log[k].at - k_log[k].before.fetched_at > CACHE_MAX_AGE_SECONDS
        /\ k_log[k].before.body = "news"
        /\ TaskAfter(k_log[k].got).recent # <<>>
        /\ TaskAfter(k_log[k].got).error = NoError

----------------------------------------------------------------------------
\* C15: clean_feed_content is idempotent: cleaning the cleaned bytes gives
\* the cleaned bytes again, for every byte input.
C15_RepairIdempotent == p_pc = "twice" => p_twice = p_once

\* An input the first call changes in every step (an incomplete sequence,
\* a control character, a bare ampersand, a carriage return), cleaned twice.
C15_Witness ==
    /\ p_pc = "twice"
    /\ p_content = <<"&", "EF", "NUL", "CR">>
    /\ p_once = <<"&", "a", "m", "p", ";", "LF">>
    /\ p_twice = p_once

----------------------------------------------------------------------------
Trimmed(text) == strip(text) = text

Bounded(text, max_length) == Trimmed(text) /\ Len(text) <= max_length + 3

FieldsBounded(article) ==
    /\ Bounded(article.title, MAX_LENGTH_TITLE)
    /\ Bounded(article.link, MAX_LENGTH_LINK)
    /\ Bounded(article.description, options.max_length_description)
    /\ Bounded(article.feed_url, MAX_LENGTH_FEED_URL)
    /\ Bounded(article.channel_image, MAX_LENGTH_CHANNEL_IMAGE)
    /\ article.skipped_reason # Absent =>
          Bounded(article.skipped_reason, MAX_LENGTH_SKIPPED_REASON)

\* C16: every textual field (title, link, description, feed URL, channel
\* image, skipped reason) of every Article the scheduler returns is
\* whitespace-trimmed and at most its configured maximum plus the
\* three-character ellipsis long.
C16_FieldsBounded ==
    pc = "returned" =>
        /\ \A k \in 1..Len(returned.all_entries) :
              FieldsBounded(returned.all_entries[k])
        /\ \A k \in 1..Len(returned.skipped_entries) :
              FieldsBounded(returned.skipped_entries[k])

\* The part of C16 that holds: every field but the feed URL, which
\* process_feed_async overwrites after clean_articles.
C16_OtherFieldsBounded ==
    pc = "returned" =>
        \A l \in {returned.all_entries, returned.skipped_entries} :
            \A k \in 1..Len(l) :
                FieldsBounded([l[k] EXCEPT !.feed_url = <<>>])

----------------------------------------------------------------------------
(* The steps of a feed's task *)

Attempt == {"parse_url", "requests", "requests_final"}
Parse == {"parse_url", "parse"}

\* The first step was the GET of the async fetch, answered by a 403: the
\* steps from the second on are those of fetch_articles_sync_fallback.
InChain(t, k) == k > 1 /\ t[1].op = "get" /\ t[1].out = "403"

\* Step k is the re-fetch of try_parse_feed right after a malformed direct
\* parse of the same URL.
RefetchAfterMalformed(t, k) ==
    /\ k > 1
    /\ t[k - 1].op = "parse_url"
    /\ t[k - 1].url = t[k].url
    /\ t[k - 1].out = "bozo"

\* Nothing is fetched or parsed after step k.
LastAttempt(t, k) == \A j \in (k + 1)..Len(t) : t[j].op \notin Attempt \cup Parse

\* C17: the fallback chain is applied in strict order and stops at the
\* first success: the plain-HTTP re-fetch of a URL is issued only right
\* after the direct parse of that URL was malformed, and once a feed has
\* parsed at some step no later step is attempted and the feed contributes
\* its Articles.
C17_StrictOrder ==
    \A i \in DOMAIN steps :
        \A k \in 1..Len(steps[i]) :
            /\ steps[i][k].op = "requests" => RefetchAfterMalformed(steps[i], k)
            /\ (InChain(steps[i], k) /\ steps[i][k].op \in Parse
                /\ steps[i][k].out = "ok") =>
                   /\ LastAttempt(steps[i], k)
                   /\ task[i] = "done" => result[i].error = NoError

\* The part of C17 that holds: the order of the direct parse and the
\* re-fetch, and the stop at the first feed that parses and classifies.
C17_OrderUnlessClassifyRaises ==
    \A i \in DOMAIN steps :
        \A k \in 1..Len(steps[i]) :
            /\ steps[i][k].op = "requests" => RefetchAfterMalformed(steps[i], k)
            /\ (InChain(steps[i], k) /\ steps[i][k].op = "classify"
                /\ steps[i][k].out = "ok") =>
                   /\ LastAttempt(steps[i], k)
                   /\ task[i] = "done" /\ result[i].error = NoError

\* C18: the http:// variant of a feed URL is attempted only when the URL
\* starts with https:// and the step before ended in an SSL error on that
\* URL; the final plain-HTTP attempt on the original URL is made only
\* right after the attempt on the variant failed; a URL that is not https
\* goes from an SSL error directly to a retrieval error.
C18_VariantOnlyAfterSsl ==
    \A i \in DOMAIN steps :
        \A k \in 1..Len(steps[i]) :
            /\ (steps[i][k].op = "parse_url"
                /\ steps[i][k].url = fallback_url_of(feeds[i][2])) =>
                   /\ StartsWith(feeds[i][2], Https)
                   /\ k > 1
                   /\ steps[i][k - 1].out = "ssl"
                   /\ steps[i][k - 1].url = feeds[i][2]
            /\ steps[i][k].op = "requests_final" =>
                   /\ StartsWith(feeds[i][2], Https)
                   /\ k > 1
                   /\ steps[i][k - 1].url = fallback_url_of(feeds[i][2])
                   /\ steps[i][k - 1].out \in {"exc", "bozo", "raise"}
            /\ (steps[i][k].out = "ssl" /\ ~StartsWith(feeds[i][2], Https)) =>
                   /\ k = Len(steps[i])
                   /\ task[i] = "done"
                   /\ result[i].error =
                         <<feeds[i][1], feeds[i][2],
                           "RuntimeError: SSL error while accessing">>

\* An https feed went through the SSL error, the http variant, whose
\* re-fetch failed, and the final attempt, which gave Articles.
C18_Witness ==
    \E i \in DOMAIN steps :
        /\ task[i] = "done" /\ result[i].recent # <<>>
        /\ \E k \in 2..Len(steps[i]) :
              /\ steps[i][k].op = "requests_final" /\ steps[i][k].out = "ok"
              /\ steps[i][k - 1].op = "requests"
              /\ steps[i][k - 1].url = fallback_url_of(feeds[i][2])
              /\ steps[i][k - 1].out = "exc"
        /\ \E k \in 1..Len(steps[i]) : steps[i][k].out = "ssl"

\* The first parse of the feed's bytes was malformed, or the GET failed
\* with a TLS error.
MalformedOrTls(t) ==
    \/ \E k \in 1..Len(t) :
          /\ t[k].op = "parse" /\ t[k].out = "bozo"
          /\ \A j \in 1..(k - 1) : t[j].op \notin Parse
    \/ \E k \in 1..Len(t) : t[k].op = "get" /\ t[k].out = "ClientConnectorSSLError"

\* C19: whenever the first parse of a feed's bytes is malformed or the
\* fetch fails with a TLS error, the fallback chain is attempted before the
\* feed is reported as a retrieval error.
C19_FallbackBeforeError ==
    \A i \in DOMAIN steps :
        (task[i] = "done" /\ result[i].error # NoError /\ MalformedOrTls(steps[i])) =>
            \E k \in 1..Len(steps[i]) : steps[i][k].op \in Attempt

\* C20: clean_feed_content is applied to a feed's bytes only after a parse
\* of that feed's document was reported malformed; a well-formed document
\* is parsed without having been cleaned.
C20_CleanOnlyAfterMalformed ==
    \A i \in DOMAIN steps :
        \A k \in 1..Len(steps[i]) :
            steps[i][k].op = "clean" =>
                \E j \in 1..(k - 1) :
                    /\ steps[i][j].op \in Parse
                    /\ steps[i][j].url = steps[i][k].url
                    /\ steps[i][j].out = "bozo"

\* The part of C20 that holds: inside try_parse_feed the bytes are cleaned
\* only after feedparser.parse(url) was malformed.
C20_TryParseFeedCleansAfterMalformed ==
    \A i \in DOMAIN steps :
        \A k \in 2..Len(steps[i]) :
            (steps[i][k].op = "clean" /\ steps[i][k - 1].op = "requests") =>
                /\ k > 2
                /\ RefetchAfterMalformed(steps[i], k - 1)

----------------------------------------------------------------------------
(* The ampersands of clean_feed_content's input and output, byte by byte *)

\* where the byte '&' stands in a byte sequence
Ampersands(bytes) == {i \in 1..Len(bytes) : bytes[i] = "&"}

\* the k-th smallest element of a set of positions
Nth(S, k) == CHOOSE i \in S : Cardinality({j \in S : j <= i}) = k

FiveEntities ==
    {<<"a", "m", "p", ";">>, <<"l", "t", ";">>, <<"g", "t", ";">>,
     <<"a", "p", "o", "s", ";">>, <<"q", "u", "o", "t", ";">>}

\* the bytes begin with one of the five entities
BeginsWithEntity(bytes) ==
    \E e \in FiveEntities : Len(bytes) >= Len(e) /\ SubSeq(bytes, 1, Len(e)) = e

After(bytes, i) == SubSeq(bytes, i + 1, Len(bytes))

\* every '&' is immediately followed by one of the five entities
EveryAmpersandStartsEntity(bytes) ==
    \A i \in Ampersands(bytes) : BeginsWithEntity(After(bytes, i))

\* what is left of the bytes when the ampersand rewrite is reached: the
\* undecodable bytes, the control characters and U+FFFE, U+FFFF are gone
BeforeRewrite(bytes) ==
    remove_illegal(remove_controls(replace_tabs(decode(bytes))))

RECURSIVE RewriteFrom(_, _, _, _)
\* the text with its k-th ampersand turned into &amp; for the k in K
RewriteFrom(text, K, i, k) ==
    IF i > Len(text) THEN <<>>
    ELSE IF text[i] = <<"&">>
    THEN (IF k \in K THEN Chars(<<"&", "a", "m", "p", ";">>) ELSE <<text[i]>>)
         \o RewriteFrom(text, K, i + 1, k + 1)
    ELSE <<text[i]>> \o RewriteFrom(text, K, i + 1, k)

\* the output in which exactly the ampersands numbered in K were rewritten
\* and the others were left as they were
WithRewritten(bytes, K) ==
    encode(replace_cr(replace_crlf(RewriteFrom(BeforeRewrite(bytes), K, 1, 1))))

\* the ampersands of the input, by number, that start no entity in the input
BareInInput(bytes) ==
    {k \in 1..Cardinality(Ampersands(bytes)) :
        ~BeginsWithEntity(After(bytes, Nth(Ampersands(bytes), k)))}

\* the ampersands of the input, by number, that start no entity once the
\* bytes the function drops are removed from what follows them
BareAfterRemoval(bytes) ==
    {k \in 1..Cardinality(Ampersands(bytes)) :
        ~BeginsWithEntity(encode(BeforeRewrite(After(bytes, Nth(Ampersands(bytes), k)))))}

\* C21 as stated: in the output of clean_feed_content every '&' is
\* immediately followed by one of amp; lt; gt; apos; quot;, an '&' of the
\* input that already starts one of these entities is left unchanged and
\* every other '&' is rewritten to '&amp;'.
C21_AmpersandsByInput ==
    p_pc \in {"once", "twice"} =>
        /\ EveryAmpersandStartsEntity(p_once)
        /\ p_once = WithRewritten(p_content, BareInInput(p_content))

\* C21, amended: in the output of clean_feed_content every '&' is
\* immediately followed by one of the five entities; an '&' of the input
\* that starts one of them once the undecodable bytes, the control
\* characters and U+FFFE, U+FFFF are removed from what follows it is left
\* unchanged, and every other '&' is rewritten to '&amp;'.
C21_AmpersandsAfterRemoval ==
    p_pc \in {"once", "twice"} =>
        /\ EveryAmpersandStartsEntity(p_once)
        /\ p_once = WithRewritten(p_content, BareAfterRemoval(p_content))

\* Of two ampersands the first was rewritten; the second, which a control
\* character separates from 'lt;' in the input, was left as it was.
C21_Witness ==
    /\ p_pc = "once"
    /\ p_content = <<"&", "&", "NUL", "l", "t", ";">>
    /\ p_once = <<"&", "a", "m", "p", ";", "&", "l", "t", ";">>

----------------------------------------------------------------------------
\* the entry has no date, a date datetime() rejects, or a tag without a term
MalformedEntry(entry) ==
    \/ DatingTuple(entry).k # "time"
    \/ \E t \in 1..Len(entry.tags) : entry.tags[t].term = None

\* the entry is one Article of the rejected list, with a reason, and none
\* of the accepted list
RecordedAsSkipped(i, entry) ==
    /\ WithLink(result[i].recent, entry.link, feeds[i][2]) = {}
    /\ \E k \in 1..Len(result[i].skipped) :
          /\ WithLink(result[i].skipped, entry.link, feeds[i][2]) = {k}
          /\ result[i].skipped[k].skipped_reason \notin {Absent, <<>>}

\* no classification of a parsed feed was left by an exception
NoClassifyRaised(i) ==
    \A k \in 1..Len(steps[i]) : steps[i][k].op = "classify" => steps[i][k].out = "ok"

\* C23: an entry with malformed per-entry data (a missing or unparseable
\* date, title or category) makes only that entry skipped, with a recorded
\* reason in the rejected list; the feed does not fail and its other
\* entries are still classified and returned.
C23_MalformedEntrySkipped ==
    \A i \in DOMAIN task :
        /\ NoClassifyRaised(i)
        /\ (Succeeded(i) /\ ~ChannelStale(served[i])) =>
              /\ \A j \in 1..Len(served[i].entries) :
                    MalformedEntry(served[i].entries[j]) =>
                        RecordedAsSkipped(i, served[i].entries[j])
              /\ OnePerEntry(i, result[i].recent, result[i].skipped)

\* The part of C23 that holds: an entry without a usable date leaves the
\* feed without failing it and without an Article, and the feed's dated
\* entries inside the range are classified and returned.
C23_UndatedEntryLeftOut ==
    \A i \in DOMAIN task :
        (Succeeded(i) /\ ~ChannelStale(served[i])) =>
            /\ \A j \in 1..Len(served[i].entries) :
                  DatingTuple(served[i].entries[j]).k # "time" =>
                      /\ WithLink(result[i].recent, served[i].entries[j].link,
                                  feeds[i][2]) = {}
                      /\ WithLink(result[i].skipped, served[i].entries[j].link,
                                  feeds[i][2]) = {}
            /\ OnePerEntry(i, result[i].recent, result[i].skipped)

----------------------------------------------------------------------------
RECURSIVE Joined(_, _)
\* lists[i] followed by lists[i + 1] and so on
Joined(lists, i) == IF i > Len(lists) THEN <<>> ELSE lists[i] \o Joined(lists, i + 1)

\* the error record of each failed feed, in the order of the feed list
ErrorsInFeedOrder ==
    Joined([i \in DOMAIN result |->
               IF result[i].error = NoError THEN <<>> ELSE <<result[i].error>>], 1)

\* the titles of the feed list never decrease
TitlesAscend ==
    \A i \in 1..(Len(feeds) - 1) : ~TextLess(feeds[i + 1][1], feeds[i][1])

\* C24: the returned accepted, rejected and errors lists hold the per-feed
\* results in the order of the input feed list, which process_rss_feed
\* sorts by title, whatever the order in which the tasks ended: runs with
\* the same per-feed outcomes return identical lists, element for element.
C24_AggregatedInFeedOrder ==
    /\ (entry_point = "process_rss_feed" /\ pc # "start") => TitlesAscend
    /\ pc = "returned" =>
          /\ returned.all_entries = Joined([i \in DOMAIN result |-> result[i].recent], 1)
          /\ returned.skipped_entries
                = Joined([i \in DOMAIN result |-> result[i].skipped], 1)
          /\ returned.errors = ErrorsInFeedOrder

\* The run returned; the second feed's task ended before the first's, and
\* both feeds have Articles in the result.
C24_Witness ==
    /\ pc = "returned"
    /\ completed.order = <<2, 1>>
    /\ result[1].recent # <<>> /\ result[2].recent # <<>>
    /\ returned.all_entries = result[1].recent \o result[2].recent

----------------------------------------------------------------------------
\* a slot is held by exactly the tasks inside process_feed_async, and the
\* run returns with every task ended and every slot free
SlotsAccounted ==
    /\ pc = "gather" => semaphore = max_concurrent - Cardinality(Inside)
    /\ pc = "returned" =>
          /\ semaphore = max_concurrent
          /\ \A i \in DOMAIN task : Done(i)

Waiting(i) == i \in DOMAIN task /\ task[i] = "waiting"
Admitted(i) == i \in DOMAIN task /\ task[i] # "waiting"
Ended(i) == i \in DOMAIN task /\ task[i] = "done"

\* C25: every feed of the list is eventually admitted and ends, also with
\* more feeds than slots and with failing feeds: a slot is released
\* whenever its task ends, by success or by exception, so that after the
\* run every slot is free and no feed waits forever.
C25_EveryFeedEnds ==
    /\ []SlotsAccounted
    /\ \A i \in DOMAIN FairFeeds : Waiting(i) ~> Admitted(i)
    /\ \A i \in DOMAIN FairFeeds : Admitted(i) ~> Ended(i)
    /\ (pc = "gather") ~> (pc = "returned")

\* The run returned with every slot free; there were more feeds than
\* slots and one of the feeds failed.
C25_Witness ==
    /\ pc = "returned"
    /\ Len(feeds) > max_concurrent
    /\ semaphore = max_concurrent
    /\ \E i \in DOMAIN task : Failed(i)
    /\ \E i \in DOMAIN task : Succeeded(i)

----------------------------------------------------------------------------
\* the Articles, accepted and rejected, that the task of feed i returned
ArticlesOf(i) == result[i].recent \o result[i].skipped

CarriesSource(article, i) ==
    /\ article.feed_title = feeds[i][1]
    /\ article.feed_url = feeds[i][2]

\* feed i was classified from what its http:// variant served
FromHttpVariant(i) ==
    /\ feeds[i][2] # fallback_url_of(feeds[i][2])
    /\ \E k \in DOMAIN steps[i] :
          steps[i][k] = Ev("classify", fallback_url_of(feeds[i][2]), "ok")

\* C26: every Article returned by process_feed_async, accepted or rejected,
\* has the title of its source as feed_title and the original URL of its
\* source as feed_url, also when the content came from the http:// variant
\* of the URL in the synchronous fallback.
C26_ArticlesCarrySource ==
    \A i \in DOMAIN result :
        task[i] = "done" =>
            \A k \in DOMAIN ArticlesOf(i) : CarriesSource(ArticlesOf(i)[k], i)

\* A feed with an https:// URL ended with accepted Articles that were
\* classified from what the http:// variant served.
C26_Witness ==
    /\ \E i \in DOMAIN result :
          /\ task[i] = "done"
          /\ FromHttpVariant(i)
          /\ result[i].recent # <<>>
          /\ \A k \in DOMAIN ArticlesOf(i) : CarriesSource(ArticlesOf(i)[k], i)

----------------------------------------------------------------------------
\* process_feed_entries on the feed that holds just c_entry, when the set of
\* exclude keywords is iterated in the given order
ClassifiedUnder(order) ==
    process_feed_entries(Feed(NoTime, <<c_entry>>), <<"u">>, 1, 1, order, c_aggressive,
                         MAX_LENGTH_DESCRIPTION)

WithoutReason(articles) ==
    [k \in DOMAIN articles |-> [articles[k] EXCEPT !.skipped_reason = Absent]]

\* the same Articles in the same lists, whatever their skipped reasons
SamePlacement(a, b) ==
    /\ a.raised = b.raised
    /\ a.recent = b.recent
    /\ WithoutReason(a.skipped) = WithoutReason(b.skipped)

\* the keywords of the set found in the text and not exempted by a phrase
\* of the exceptions dict
NonExempted(keywords, text_lower, exceptions) ==
    {kw \in keywords :
        /\ IsSubstring(kw, text_lower)
        /\ ~(kw \in DOMAIN exceptions
             /\ \E e \in DOMAIN exceptions[kw] : IsSubstring(exceptions[kw][e], text_lower))}

\* C27: for any two iteration orders of the same set of exclude keywords,
\* process_feed_entries puts the entry in the same list, and
\* matches_exclude_keywords matches under both or under neither; the
\* outcomes differ at most in the keyword the reason names, and only when
\* several non-exempted keywords match.
C27_PlacementIgnoresOrder ==
    c_pc = "done" =>
        \A order \in SetToSeqs(lower_keywords(c_exclude)) :
            /\ SamePlacement(ClassifiedUnder(order), c_out)
            /\ ClassifiedUnder(order) # c_out =>
                  Cardinality(NonExempted(lower_keywords(c_exclude),
                                          combined_text_of(c_entry),
                                          KEYWORD_EXCEPTIONS)) > 1
            /\ (matches_exclude_keywords(raw_text_of(c_entry), order, c_exceptions) = None)
                  <=> (c_matched = None)
            /\ matches_exclude_keywords(raw_text_of(c_entry), order, c_exceptions) # c_matched
                  => Cardinality(NonExempted(lower_keywords(c_exclude),
                                             lower(raw_text_of(c_entry)),
                                             c_exceptions)) > 1

\* The entry was rejected for a keyword, and under another order of the same
\* set it is rejected with another keyword in the reason.
C27_Witness ==
    /\ c_pc = "done"
    /\ c_out.skipped # <<>>
    /\ \E order \in SetToSeqs(lower_keywords(c_exclude)) :
          /\ order # c_order
          /\ ClassifiedUnder(order).skipped # c_out.skipped
          /\ SamePlacement(ClassifiedUnder(order), c_out)

\* One keyword of the set is exempted by a phrase in the text, another
\* matches, and the entry's keyword match is found whichever comes first.
C27_WitnessExempted ==
    /\ c_pc = "done"
    /\ c_matched # None
    /\ Len(c_order) = 2
    /\ c_order[1] \in DOMAIN c_exceptions
    /\ IsSubstring(c_order[1], lower(raw_text_of(c_entry)))
    /\ c_order[2] = c_matched

----------------------------------------------------------------------------
\* the list the classifier chooses for an entry on its own is the rejected one
RejectedOnItsOwn(entry) ==
    \/ matches_aggressive_keywords(entry.tags, combined_text_of(entry),
                                   options.aggressive_keywords) = "False"
    \/ NonExempted(lower_keywords(options.exclude_keywords), combined_text_of(entry),
                   KEYWORD_EXCEPTIONS) # {}

\* examining the entry raises (a tag without a term meets a keyword set)
ExaminationRaises(entry) ==
    matches_aggressive_keywords(entry.tags, combined_text_of(entry),
                                options.aggressive_keywords) = "AttributeError"

\* the two lists of task i hold the in-range entries of the feed it was
\* served, one Article each, every one in the list chosen for it alone
FilteredIndividually(i) ==
    /\ OnePerEntry(i, result[i].recent, result[i].skipped)
    /\ Len(result[i].recent) + Len(result[i].skipped)
          = Cardinality(InRangeEntries(served[i]))
    /\ \A j \in InRangeEntries(served[i]) :
          WithLink(result[i].skipped, served[i].entries[j].link, feeds[i][2]) # {}
             <=> RejectedOnItsOwn(served[i].entries[j])

\* C28: a feed whose channel-level updated timestamp is present and earlier
\* than start_date yields no accepted and no rejected Article, and its
\* entries are not examined, even when some are dated inside the range; a
\* feed whose channel timestamp is absent or not earlier than start_date
\* has its entries filtered one by one.
C28_StaleChannelYieldsNothing ==
    \A i \in DOMAIN task :
        /\ (Done(i) /\ ChannelStale(served[i])) =>
              /\ result[i].recent = <<>>
              /\ result[i].skipped = <<>>
              /\ feeds[i][1] # None => Succeeded(i)
        /\ (Succeeded(i) /\ ~ChannelStale(served[i])) => FilteredIndividually(i)

\* A feed with a stale channel timestamp ended without Articles and without
\* an error, although one of its entries is dated inside the range and the
\* examination of another would have raised.
C28_Witness ==
    \E i \in DOMAIN task :
        /\ Succeeded(i)
        /\ ChannelStale(served[i])
        /\ InRangeEntries(served[i]) # {}
        /\ \E j \in InRangeEntries(served[i]) : ExaminationRaises(served[i].entries[j])
        /\ result[i].recent = <<>> /\ result[i].skipped = <<>>

\* A feed whose channel timestamp equals start_date, and one without a
\* channel timestamp, ended with Articles.
C28_WitnessFiltered ==
    /\ \E i \in DOMAIN task :
          /\ Succeeded(i)
          /\ served[i].updated_parsed = Time(options.start_date)
          /\ result[i].recent # <<>>
    /\ \E i \in DOMAIN task :
          /\ Succeeded(i)
          /\ served[i].updated_parsed = NoTime
          /\ result[i].recent # <<>> /\ result[i].skipped # <<>>

----------------------------------------------------------------------------
\* the command line holds a flag that parse_args takes for option n
Passed(n, argv) == \E i \in DOMAIN argv : OptionsOf(argv[i].flag) = {n}

\* the command line holds the flag of option n spelled in full
PassedInFull(n, argv) == build_user_options[n].cli_name \in cli_flags(argv)

\* the options were resolved: the command line was accepted and the
\* settings file loaded
ResolutionDone ==
    /\ m_pc \in {"called", "ended"}
    /\ ~ParseFails(m_argv)
    /\ m_yaml.error = "none"

\* CLI over YAML over default, for an option whose flag counts as passed
\* or not
Precedence(option, n, passed) ==
    IF ~option.yaml_only /\ passed THEN parse_arguments(m_argv)[n]
    ELSE IF ~option.cli_only /\ option.yaml_name \in DOMAIN m_yaml.dict
    THEN m_yaml.dict[option.yaml_name]
    ELSE option.default

\* C29: option resolution gives every option the CLI value if its flag was
\* passed and the option is not yaml_only, otherwise the YAML value if the
\* settings file defines its key and the option is not cli_only, otherwise
\* its default; so a cli_only option is never changed by YAML and a
\* yaml_only option never by the CLI.
C29_OptionResolution ==
    ResolutionDone =>
        \A n \in OptionNames :
            m_user_options[n] = Precedence(build_user_options[n], n, Passed(n, m_argv))

\* The part of C29 that holds: the precedence is as stated for a flag
\* spelled in full, while an abbreviated flag does not count as passed.
C29_ResolutionByFullSpelling ==
    ResolutionDone =>
        \A n \in OptionNames :
            m_user_options[n]
               = Precedence(build_user_options[n], n, PassedInFull(n, m_argv))

\* Also part of C29 that holds: YAML leaves a cli_only option alone and the
\* command line leaves a yaml_only option alone.
C29_OnlyOptionsKept ==
    ResolutionDone =>
        \A n \in OptionNames :
            /\ (build_user_options[n].cli_only /\ ~Passed(n, m_argv))
                  => m_user_options[n] = build_user_options[n].default
            /\ (build_user_options[n].yaml_only
                /\ build_user_options[n].yaml_name \notin DOMAIN m_yaml.dict)
                  => m_user_options[n] = build_user_options[n].default

----------------------------------------------------------------------------
\* keyword exclusion is enabled and no exclude-keywords file is configured
ExclusionWithoutFile ==
    /\ ResolutionDone
    /\ m_user_options["EXCLUDE_KEYWORDS"]
    /\ m_user_options["EXCLUDE_KEYWORDS_FILE"] = NoPath

\* C30: with keyword exclusion enabled and no exclude-keywords file
\* configured, run_main_logic uses the built-in list of six keywords,
\* lower-cased, and goes on to process the feeds instead of ending the run
\* with an error.
C30_DefaultExcludeList ==
    ExclusionWithoutFile =>
        /\ m_pc = "called"
        /\ m_exclude = [i \in DOMAIN EXCLUDE_KEYWORDS_list |-> lower(EXCLUDE_KEYWORDS_list[i])]

\* What the code does instead: the run ends with 1 before any feed is
\* processed.
C30_RunEndsWithError ==
    ExclusionWithoutFile => (m_pc = "ended" /\ m_return = "1")

\* the case of C30 is reached, from the command line and from the settings
C30_Reached ==
    /\ ExclusionWithoutFile
    /\ m_return = "1"
    /\ PassedInFull("EXCLUDE_KEYWORDS", m_argv)

----------------------------------------------------------------------------
\* the settings file configures max_concurrent_tasks
CeilingConfigured == "max_concurrent_tasks" \in DOMAIN m_yaml.dict

\* C22: when the ceiling is not configured, at most MAX_CONCURRENT_TASKS
\* (15) feed tasks execute at once; a configured max_concurrent_tasks is the
\* ceiling process_all_feeds uses, so no more tasks than that execute at
\* once.
C22_ConfiguredCeilingUsed ==
    (m_pc = "called" /\ pc = "gather") =>
        IF CeilingConfigured
        THEN /\ max_concurrent = m_user_options["MAX_CONCURRENT_TASKS"]
             /\ Cardinality(Inside) <= m_user_options["MAX_CONCURRENT_TASKS"]
        ELSE Cardinality(Inside) <= MAX_CONCURRENT_TASKS

\* What the code does: the ceiling is the default of process_all_feeds,
\* whatever the settings say.
C22_CeilingIsTheDefaultOfProcessAllFeeds ==
    (m_pc = "called" /\ pc = "gather") =>
        /\ max_concurrent = DefaultMaxConcurrent
        /\ Cardinality(Inside) <= DefaultMaxConcurrent

\* the settings configure a ceiling of 1 and two feed tasks execute at once
C22_Reached ==
    /\ m_pc = "called" /\ pc = "gather"
    /\ m_user_options["MAX_CONCURRENT_TASKS"] = 1
    /\ Cardinality(Inside) = 2

============================================================================
